---------------------------- MODULE Spec2Model ----------------------------
(***************************************************************************)
(* Dashboard variable and time-macro resolution of the Grafana cost        *)
(* dashboard viewer (src/app.py): parse_grafana_time_range and the         *)
(* per-target query interpolation of view_dashboard.                       *)
(*                                                                         *)
(* Text is a sequence of one-character strings, so that the regular        *)
(* expressions and str.replace of the source act on characters.            *)
(***************************************************************************)
EXTENDS Integers, Sequences, FiniteSets, TLC

(***************************************************************************)
(* Characters and the python string primitives the source uses.            *)
(***************************************************************************)
Digits == <<"0","1","2","3","4","5","6","7","8","9">>

DigitChars == {Digits[i] : i \in 1..10}

\* \w of the re module, restricted to ASCII
WordChars ==
  {"a","b","c","d","e","f","g","h","i","j","k","l","m","n","o","p","q","r","s","t","u","v","w","x","y","z",
   "A","B","C","D","E","F","G","H","I","J","K","L","M","N","O","P","Q","R","S","T","U","V","W","X","Y","Z",
   "0","1","2","3","4","5","6","7","8","9","_"}

\* \s of the re module, restricted to the blanks a query holds
SpaceChars == {" ", "\t", "\n"}

IsWord(c) == c \in WordChars

IsSpace(c) == c \in SpaceChars

SetMax(S) == CHOOSE x \in S : \A y \in S : y <= x

SetMin(S) == CHOOSE x \in S : \A y \in S : x <= y

\* text[i:].startswith(key)
StartsAt(text, i, key) ==
  /\ i >= 1
  /\ i + Len(key) - 1 <= Len(text)
  /\ \A j \in 1..Len(key) : text[i + j - 1] = key[j]

\* key in text
Contains(text, key) == \E i \in 1..(Len(text) + 1) : StartsAt(text, i, key)

\* start positions of the occurrences str.replace rewrites: left to right,
\* non-overlapping (key is never empty here)
\* the first position from i on at which key starts, 0 if there is none
NextStart(text, key, i) ==
  IF \E j \in i..Len(text) : StartsAt(text, j, key)
  THEN SetMin({j \in i..Len(text) : StartsAt(text, j, key)})
  ELSE 0

RECURSIVE OccurrencesAfter(_, _, _)
OccurrencesAfter(text, key, j) ==
  IF j = 0 THEN <<>>
  ELSE <<j>> \o OccurrencesAfter(text, key, NextStart(text, key, j + Len(key)))

OccurrencesFrom(text, key, i) == OccurrencesAfter(text, key, NextStart(text, key, i))

Occurrences(text, key) == OccurrencesFrom(text, key, 1)

\* text.replace(key, val)
RECURSIVE StrReplaceAt(_, _, _, _, _)
StrReplaceAt(text, key, val, i, j) ==
  IF j = 0 THEN SubSeq(text, i, Len(text))
  ELSE SubSeq(text, i, j - 1) \o val
       \o StrReplaceAt(text, key, val, j + Len(key), NextStart(text, key, j + Len(key)))

StrReplaceFrom(text, key, val, i) == StrReplaceAt(text, key, val, i, NextStart(text, key, i))

StrReplace(text, key, val) == StrReplaceFrom(text, key, val, 1)

\* sep.join(parts)
RECURSIVE StrJoin(_, _)
StrJoin(sep, parts) ==
  IF parts = <<>> THEN <<>>
  ELSE IF Len(parts) = 1 THEN parts[1]
       ELSE parts[1] \o sep \o StrJoin(sep, Tail(parts))

\* str(n) of an int
RECURSIVE NatToStr(_)
NatToStr(n) ==
  IF n < 10 THEN <<Digits[n + 1]>>
  ELSE NatToStr(n \div 10) \o <<Digits[(n % 10) + 1]>>

IntToStr(n) == IF n < 0 THEN <<"-">> \o NatToStr(-n) ELSE NatToStr(n)

DigitVal(c) == CHOOSE k \in 0..9 : Digits[k + 1] = c

\* int(s) of a short digit string
RECURSIVE StrToNat(_)
StrToNat(s) ==
  IF s = <<>> THEN 0
  ELSE 10 * StrToNat(SubSeq(s, 1, Len(s) - 1)) + DigitVal(s[Len(s)])

\* the last index of the run of characters of class cls that starts at i
\* (i - 1 when text[i] is not in cls): the greedy match of cls*
RunEnd(text, i, cls) ==
  SetMax({i - 1} \cup {j \in i..Len(text) : \A k \in i..j : text[k] \in cls})

(***************************************************************************)
(* Template variable values: a str, an int or a list of them.              *)
(***************************************************************************)
StrVal(s) == [t |-> "str", s |-> s]

IntVal(n) == [t |-> "int", n |-> n]

ListVal(items) == [t |-> "list", items |-> items]

Quote == <<"'">>

AllSentinel == StrVal(<<"$","_","_","a","l","l">>)

\* repr(v) of a list element, for strings without quotes or escapes
PyReprItem(v) == IF v.t = "str" THEN Quote \o v.s \o Quote ELSE IntToStr(v.n)

\* str(value)
PyStr(v) ==
  IF v.t = "str" THEN v.s
  ELSE IF v.t = "int" THEN IntToStr(v.n)
  ELSE <<"[">> \o StrJoin(<<",", " ">>, [k \in 1..Len(v.items) |-> PyReprItem(v.items[k])]) \o <<"]">>

\* str(v) for every type
SqlLiteral_Unquoted(v) == PyStr(v)

\* f"'{str(v)}'" if isinstance(v, str) else str(v)
SqlLiteral(v) == IF v.t = "str" THEN Quote \o PyStr(v) \o Quote ELSE PyStr(v)

(***************************************************************************)
(* datetime: a naive UTC instant is [d |-> days since 1970-01-01,          *)
(* s |-> second of the day]; microseconds are not kept because strftime    *)
(* with %S drops them.                                                     *)
(***************************************************************************)
IsLeap(y) == (y % 4 = 0 /\ y % 100 # 0) \/ y % 400 = 0

\* calendar.monthrange(y, m)[1]
DaysInMonth(y, m) ==
  IF m = 2 THEN (IF IsLeap(y) THEN 29 ELSE 28)
  ELSE IF m \in {4, 6, 9, 11} THEN 30 ELSE 31

\* proleptic Gregorian ordinal of y-m-d relative to 1970-01-01 (y >= 1)
DaysFromCivil(y, m, d) ==
  LET yy  == IF m <= 2 THEN y - 1 ELSE y
      era == yy \div 400
      yoe == yy - era * 400
      mp  == IF m > 2 THEN m - 3 ELSE m + 9
      doy == (153 * mp + 2) \div 5 + d - 1
      doe == yoe * 365 + yoe \div 4 - yoe \div 100 + doy
  IN  era * 146097 + doe - 719468

CivilFromDays(z) ==
  LET zz  == z + 719468
      era == zz \div 146097
      doe == zz - era * 146097
      yoe == (doe - doe \div 1460 + doe \div 36524 - doe \div 146096) \div 365
      doy == doe - (365 * yoe + yoe \div 4 - yoe \div 100)
      mp  == (5 * doy + 2) \div 153
      dd  == doy - (153 * mp + 2) \div 5 + 1
      mm  == IF mp < 10 THEN mp + 3 ELSE mp - 9
      yy  == yoe + era * 400 + (IF mm <= 2 THEN 1 ELSE 0)
  IN  [y |-> yy, m |-> mm, d |-> dd]

\* datetime.min and datetime.max as day numbers
MinDay == DaysFromCivil(1, 1, 1)

MaxDay == DaysFromCivil(9999, 12, 31)

DateTime(y, m, d, hh, mi, ss) ==
  [d |-> DaysFromCivil(y, m, d), s |-> hh * 3600 + mi * 60 + ss]

Pad2(n) == IF n < 10 THEN <<"0">> \o NatToStr(n) ELSE NatToStr(n)

\* dt.strftime('%Y-%m-%d %H:%M:%S') (glibc does not pad %Y)
StrftimeCivil(c, s) ==
  NatToStr(c.y) \o <<"-">> \o Pad2(c.m) \o <<"-">> \o Pad2(c.d) \o <<" ">>
  \o Pad2(s \div 3600) \o <<":">> \o Pad2((s % 3600) \div 60)
  \o <<":">> \o Pad2(s % 60)

Strftime(dt) == StrftimeCivil(CivilFromDays(dt.d), dt.s)

RECURSIVE StripZeros(_)
StripZeros(ds) ==
  IF ds # <<>> /\ ds[1] = "0" THEN StripZeros(Tail(ds)) ELSE ds

\* <<quotient, remainder>> of the decimal number ds by k, digit by digit
RECURSIVE LongDivMod(_, _)
LongDivMod(ds, k) ==
  IF ds = <<>> THEN <<0, 0>>
  ELSE LET p == LongDivMod(SubSeq(ds, 1, Len(ds) - 1), k)
           r == p[2] * 10 + DigitVal(ds[Len(ds)])
       IN  <<p[1] * 10 + r \div k, r % k>>

\* outcome of an expression that yields a datetime, None or an exception
Some(dt) == [k |-> "dt", dt |-> dt]

None == [k |-> "none"]

Raised(exc) == [k |-> "raise", exc |-> exc]

\* now - timedelta(hours=n), for n below 10^9
MinusHours(now, n) ==
  LET room == (now.d - MinDay) * 24 + now.s \div 3600
      secs == now.s - (n % 24) * 3600
  IN  IF n > room THEN Raised("OverflowError")
      ELSE IF secs < 0
           THEN Some([d |-> now.d - (n \div 24) - 1, s |-> secs + 86400])
           ELSE Some([d |-> now.d - (n \div 24), s |-> secs])

\* the day offset taken for an hour offset
MinusDays_AsHours(now, n) == MinusHours(now, n)

\* now - timedelta(days=n), for n below 10^9
MinusDays(now, n) ==
  IF n > now.d - MinDay THEN Raised("OverflowError")
  ELSE Some([d |-> now.d - n, s |-> now.s])

\* now - relativedelta(months=n), for n below 10^9: the day of the month is
\* kept unless the target month is shorter
\* the day of the month carried over as it is
ClampedDay_Unclamped(yy, mm, dd, s) ==
  IF yy < 1 THEN Raised("ValueError")
  ELSE Some([d |-> DaysFromCivil(yy, mm, dd), s |-> s])

\* the date yy-mm-dd with the day clamped to the length of the month
ClampedDay(yy, mm, dd, s) ==
  IF yy < 1 THEN Raised("ValueError")
  ELSE Some([d |-> DaysFromCivil(yy, mm, IF dd < DaysInMonth(yy, mm) THEN dd
                                         ELSE DaysInMonth(yy, mm)),
             s |-> s])

\* n months before the civil date c
MonthsBefore(c, n, s) ==
  IF c.m - (n % 12) < 1
  THEN ClampedDay(c.y - (n \div 12) - 1, c.m - (n % 12) + 12, c.d, s)
  ELSE ClampedDay(c.y - (n \div 12), c.m - (n % 12), c.d, s)

MinusMonths(now, n) == MonthsBefore(CivilFromDays(now.d), n, now.s)

UnitChars == {"h", "d", "w", "m", "M", "y"}

Now_ == <<"n","o","w">>

NowMinus == <<"n","o","w","-">>

\* re.match(r'now-(\d+)([hdwmMy])(/([hdwmMy]))?', spec): the digits and the
\* unit when the prefix matches (the optional rounding group never decides)
RelativeMatchTo(spec, e) ==
  IF StartsAt(spec, 1, NowMinus) /\ e >= 5 /\ e + 1 <= Len(spec)
     /\ spec[e + 1] \in UnitChars
  THEN [ok |-> TRUE, digits |-> SubSeq(spec, 5, e), unit |-> spec[e + 1]]
  ELSE [ok |-> FALSE]

RelativeMatch(spec) == RelativeMatchTo(spec, RunEnd(spec, 5, DigitChars))

Diag(msg, arg) == [msg |-> msg, arg |-> arg]

NoDiag == [msg |-> "", arg |-> <<>>]

\* [r |-> datetime / None / raise, err |-> diagnostic or NoDiag]
Bound(r, err) == [r |-> r, err |-> err]

\* the relative branch: src/app.py 176-193 and 210-225
\* now minus n units (n below 10^9, or huge: ten digits and more).  A huge
\* month or year offset fails in datetime.replace with ValueError while the
\* year fits a C int and with OverflowError beyond; no handler tells them apart
RelativeDelta(unit, huge, n, now) ==
  IF unit = "m" THEN Bound(None, Diag("Unsupported relative time unit: ", <<unit>>))
  ELSE IF huge
       THEN Bound(Raised(IF unit \in {"M", "y"} THEN "ValueError or OverflowError"
                         ELSE "OverflowError"), NoDiag)
  ELSE IF n = 0 THEN Bound(None, Diag("Unsupported relative time unit: ", <<unit>>))
  ELSE IF unit = "h" THEN Bound(MinusHours(now, n), NoDiag)
  ELSE IF unit = "d" THEN Bound(MinusDays(now, n), NoDiag)
  ELSE IF unit = "w"
       THEN Bound(IF n > 142857142 THEN Raised("OverflowError") ELSE MinusDays(now, 7 * n), NoDiag)
  ELSE IF unit = "M" THEN Bound(MinusMonths(now, n), NoDiag)
  ELSE Bound(IF n > 9999 THEN Raised("ValueError") ELSE MinusMonths(now, 12 * n), NoDiag)

\* int(match.group(1)) of the digits ds without their leading zeros
RelativeAmount(unit, ds, now) ==
  RelativeDelta(unit, Len(ds) > 9, IF Len(ds) > 9 THEN 0 ELSE StrToNat(ds), now)

RelativeOf(m, spec, now, which) ==
  IF ~m.ok
  THEN Bound(None, Diag(IF which = "from" THEN "Could not parse relative 'from' time: "
                        ELSE "Could not parse relative 'to' time: ", spec))
  ELSE RelativeAmount(m.unit, StripZeros(m.digits), now)

ParseRelative(spec, now, which) == RelativeOf(RelativeMatch(spec), spec, now, which)

IsDigitStr(s) == s # <<>> /\ \A i \in 1..Len(s) : s[i] \in DigitChars

\* a <= b for two decimal numbers written without leading zeros
RECURSIVE DigitsLeq(_, _)
DigitsLeq(a, b) ==
  IF Len(a) # Len(b) THEN Len(a) < Len(b)
  ELSE IF a = <<>> THEN TRUE
  ELSE IF a[1] # b[1] THEN DigitVal(a[1]) < DigitVal(b[1])
  ELSE DigitsLeq(Tail(a), Tail(b))

\* the last millisecond count whose year still fits the C int of gmtime
\* (beyond it utcfromtimestamp raises OSError, errno EOVERFLOW)
GmtimeMaxMillis == <<"6","7","7","6","8","0","3","6","1","9","1","6","7","6","7","9","6","9","2","8">>

\* the last millisecond count whose seconds still fit a 64-bit time_t
\* (beyond it utcfromtimestamp raises OverflowError)
TimeTMaxMillis == <<"9","2","2","3","3","7","2","0","3","6","8","5","4","7","7","5","2","8","3","7","1","1">>

\* the datetime of <<days, second of day>>, or the ValueError of year > 9999
FromDayAndSecond(qr) ==
  IF qr[1] > MaxDay THEN Raised("ValueError") ELSE Some([d |-> qr[1], s |-> qr[2]])

\* ds: the milliseconds without leading zeros, secs: ds without its last three digits
FromMillisOf(ds, secs) ==
  IF Len(secs) <= 12 THEN FromDayAndSecond(LongDivMod(secs, 86400))
  ELSE IF DigitsLeq(ds, GmtimeMaxMillis) THEN Raised("ValueError")
  ELSE IF DigitsLeq(ds, TimeTMaxMillis) THEN Raised("OSError")
  ELSE Raised("OverflowError")

MillisToSeconds(ds) ==
  FromMillisOf(ds, IF Len(ds) > 3 THEN SubSeq(ds, 1, Len(ds) - 3) ELSE <<>>)

\* datetime.utcfromtimestamp(int(spec) / 1000.0), for a text of ASCII digits
\* short enough for int() and the float division (up to 308 digits)
FromMillis(spec) == MillisToSeconds(StripZeros(spec))

TwoDigits(s, i) == 10 * DigitVal(s[i]) + DigitVal(s[i + 1])

\* datetime.fromisoformat(spec.replace('Z', '+00:00')): the forms YYYY-MM-DD
\* and YYYY-MM-DD[T ]HH:MM:SS[Z] are parsed, a text that does not start with
\* a digit is rejected (the further forms that start with digits, which the
\* Python versions accept differently, are not among the texts of the model)
FromIso(spec) ==
  LET s    == StrReplace(spec, <<"Z">>, <<"+","0","0",":","0","0">>)
      n    == Len(s)
      dOk  == /\ n >= 10
              /\ \A i \in {1, 2, 3, 4, 6, 7, 9, 10} : s[i] \in DigitChars
              /\ s[5] = "-" /\ s[8] = "-"
      tOk  == /\ n >= 19
              /\ s[11] \in {"T", " "}
              /\ \A i \in {12, 13, 15, 16, 18, 19} : s[i] \in DigitChars
              /\ s[14] = ":" /\ s[17] = ":"
      zOk  == n = 19 \/ (n = 25 /\ SubSeq(s, 20, 25) = <<"+","0","0",":","0","0">>)
      y    == StrToNat(SubSeq(s, 1, 4))
      mo   == TwoDigits(s, 6)
      d    == TwoDigits(s, 9)
      hh   == IF n = 10 THEN 0 ELSE TwoDigits(s, 12)
      mi   == IF n = 10 THEN 0 ELSE TwoDigits(s, 15)
      ss   == IF n = 10 THEN 0 ELSE TwoDigits(s, 18)
  IN  IF ~(dOk /\ (n = 10 \/ (tOk /\ zOk))) THEN Raised("ValueError")
      ELSE IF y < 1 \/ mo < 1 \/ mo > 12 \/ d < 1 \/ d > DaysInMonth(y, mo)
              \/ hh > 23 \/ mi > 59 \/ ss > 59
           THEN Raised("ValueError")
           ELSE Some(DateTime(y, mo, d, hh, mi, ss))

\* the absolute branch: the try/except ValueError of src/app.py 197-203
AbsoluteOf(r, spec, which) ==
  IF r.k = "raise" /\ r.exc = "ValueError"
  THEN Bound(None, Diag(IF which = "from" THEN "Could not parse absolute 'from' time: "
                        ELSE "Could not parse absolute 'to' time: ", spec))
  ELSE Bound(r, NoDiag)

ParseAbsolute(spec, which) ==
  AbsoluteOf(IF IsDigitStr(spec) THEN FromMillis(spec) ELSE FromIso(spec), spec, which)

\* one endpoint of the range: src/app.py 174-203 (from) and 206-233 (to)
ParseBound(spec, now, which) ==
  IF StartsAt(spec, 1, NowMinus) THEN ParseRelative(spec, now, which)
  ELSE IF spec = Now_ THEN Bound(Some(now), NoDiag)
  ELSE ParseAbsolute(spec, which)

\* the conditions with the later diagnostic preferred
RangeCondition_LastDiag(f, t, column_name) ==
  [raised |-> f.r.k = "raise" \/ t.r.k = "raise",
   sql    |-> IF f.r.k = "dt" /\ t.r.k = "dt"
              THEN column_name \o <<" ",">","="," ">> \o Quote \o Strftime(f.r.dt) \o Quote
                   \o <<" ","A","N","D"," ">>
                   \o column_name \o <<" ","<","="," ">> \o Quote \o Strftime(t.r.dt) \o Quote
              ELSE <<"1","=","1">>,
   err    |-> IF t.err # NoDiag THEN t.err ELSE f.err]

\* the conditions built from the two parsed endpoints f and t:
\* [raised, sql, err]; err = NoDiag stands for the None of the source
RangeCondition(f, t, column_name) ==
  LET err   == IF f.err # NoDiag THEN f.err ELSE t.err
      conds == (IF f.r.k = "dt"
                THEN <<column_name \o <<" ",">","="," ">> \o Quote \o Strftime(f.r.dt) \o Quote>>
                ELSE <<>>)
               \o
               (IF t.r.k = "dt"
                THEN <<column_name \o <<" ","<","="," ">> \o Quote \o Strftime(t.r.dt) \o Quote>>
                ELSE <<>>)
  IN  IF f.r.k = "raise" \/ t.r.k = "raise"
      THEN [raised |-> TRUE, sql |-> <<>>, err |-> NoDiag]
      ELSE IF conds # <<>>
           THEN [raised |-> FALSE, sql |-> StrJoin(<<" ","A","N","D"," ">>, conds), err |-> err]
           ELSE [raised |-> FALSE, sql |-> <<"1","=","1">>,
                 err |-> IF err # NoDiag THEN err
                         ELSE Diag("Failed to parse time range, using 1=1", <<>>)]

\* parse_grafana_time_range(time_from, time_to, column_name) at instant now
ParseGrafanaTimeRange(time_from, time_to, column_name, now) ==
  RangeCondition(ParseBound(time_from, now, "from"), ParseBound(time_to, now, "to"),
                 column_name)

(***************************************************************************)
(* The regular expressions of view_dashboard.                              *)
(***************************************************************************)
TimeFilterOpen == <<"$","_","_","t","i","m","e","F","i","l","t","e","r","(">>

IntervalToken_Unquoted == <<"$","I","n","t","e","r","v","a","l">>

IntervalToken == <<"'","$","I","n","t","e","r","v","a","l","'">>

IntervalName == <<"I","n","t","e","r","v","a","l">>

IntervalDefault_Daily == <<"D","a","i","l","y">>

IntervalDefault == <<"M","o","n","t","h","l","y">>

\* f"${{{var_name}}}"
Placeholder(name) == <<"$","{">> \o name \o <<"}">>

\* end of the match of \$__timeFilter\((\w+)\) that starts at i, 0 if none
TimeFilterEndAt(text, i) ==
  LET a == i + Len(TimeFilterOpen)
      b == RunEnd(text, a, WordChars)
  IN  IF StartsAt(text, i, TimeFilterOpen) /\ b >= a /\ b + 1 <= Len(text)
         /\ text[b + 1] = ")"
      THEN b + 1 ELSE 0

\* the search that returns the last call of the text
TimeFilterSearch_Last(text) ==
  LET S == {i \in 1..Len(text) : TimeFilterEndAt(text, i) > 0}
  IN  IF S = {} THEN [found |-> FALSE]
      ELSE [found |-> TRUE, start |-> SetMax(S),
            group0 |-> SubSeq(text, SetMax(S), TimeFilterEndAt(text, SetMax(S))),
            group1 |-> SubSeq(text, SetMax(S) + Len(TimeFilterOpen),
                              TimeFilterEndAt(text, SetMax(S)) - 1)]

\* re.search(r"\$__timeFilter\((\w+)\)", text)
TimeFilterSearch(text) ==
  LET S == {i \in 1..Len(text) : TimeFilterEndAt(text, i) > 0}
  IN  IF S = {} THEN [found |-> FALSE]
      ELSE LET i == SetMin(S)
               e == TimeFilterEndAt(text, i)
           IN  [found |-> TRUE, start |-> i,
                group0 |-> SubSeq(text, i, e),
                group1 |-> SubSeq(text, i + Len(TimeFilterOpen), e - 1)]

\* end of the match of \$\{(\w+)\} that starts at i, 0 if none
PlaceholderEndAt(text, i) ==
  LET b == RunEnd(text, i + 2, WordChars)
  IN  IF StartsAt(text, i, <<"$","{">>) /\ b >= i + 2 /\ b + 1 <= Len(text)
         /\ text[b + 1] = "}"
      THEN b + 1 ELSE 0

\* re.findall(r"\$\{(\w+)\}", text): the names, left to right
RECURSIVE FindAllVariablesFrom(_, _)
FindAllVariablesFrom(text, i) ==
  IF \A j \in i..Len(text) : PlaceholderEndAt(text, j) = 0 THEN <<>>
  ELSE LET b == SetMin({j \in i..Len(text) : PlaceholderEndAt(text, j) > 0})
       IN  <<SubSeq(text, b + 2, PlaceholderEndAt(text, b) - 1)>>
           \o FindAllVariablesFrom(text, PlaceholderEndAt(text, b) + 1)

FindAllVariables(text) == FindAllVariablesFrom(text, 1)

\* the pattern with single blanks and none inside the parentheses
InConditionEndAt_Strict(text, i, placeholder) ==
  LET w == RunEnd(text, i, WordChars)
      k == <<" ","I","N"," ","(">> \o placeholder \o <<")">>
  IN  IF w >= i /\ StartsAt(text, w + 1, k) THEN w + Len(k) ELSE 0

\* end of the match of (\w+)\s+IN\s+\(\s*<placeholder>\s*\) that starts at
\* i, 0 if none; every quantifier is greedy and none can give back
InConditionEndAt(text, i, placeholder) ==
  LET w  == RunEnd(text, i, WordChars)
      s1 == RunEnd(text, w + 1, SpaceChars)
      s2 == RunEnd(text, s1 + 3, SpaceChars)
      s3 == RunEnd(text, s2 + 2, SpaceChars)
      s4 == RunEnd(text, s3 + 1 + Len(placeholder), SpaceChars)
  IN  IF /\ w >= i
         /\ s1 >= w + 1
         /\ StartsAt(text, s1 + 1, <<"I","N">>)
         /\ s2 >= s1 + 3
         /\ s2 + 1 <= Len(text)
         /\ text[s2 + 1] = "("
         /\ StartsAt(text, s3 + 1, placeholder)
         /\ s4 + 1 <= Len(text)
         /\ text[s4 + 1] = ")"
      THEN s4 + 1 ELSE 0

\* re.search(rf"(\w+)\s+IN\s+\(\s*{re.escape(placeholder)}\s*\)", text)
InConditionSearch(text, placeholder) ==
  LET S == {i \in 1..Len(text) : InConditionEndAt(text, i, placeholder) > 0}
  IN  IF S = {} THEN [found |-> FALSE]
      ELSE LET i == SetMin(S)
           IN  [found |-> TRUE, start |-> i,
                group0 |-> SubSeq(text, i, InConditionEndAt(text, i, placeholder))]

(***************************************************************************)
(* replacements_to_make: a dict in insertion order, as a sequence of       *)
(* [key, has, val]; has = FALSE stands for the value None.                 *)
(***************************************************************************)
Entry(key, has, val) == [key |-> key, has |-> has, val |-> val]

RepHas(rep, key) == \E k \in 1..Len(rep) : rep[k].key = key

RepGet(rep, key) == rep[CHOOSE k \in 1..Len(rep) : rep[k].key = key]

\* rep[key] = val: a key already present keeps its position
RepSet(rep, key, has, val) ==
  IF RepHas(rep, key)
  THEN [k \in 1..Len(rep) |-> IF rep[k].key = key THEN Entry(key, has, val) ELSE rep[k]]
  ELSE Append(rep, Entry(key, has, val))

OneEqOne == <<"1","=","1">>

TrueLit_Tautology == <<"1","=","1">>

TrueLit == <<"T","R","U","E">>

\* every element kept, the sentinel too
QuotedValues_KeepSentinel(items) == [k \in 1..Len(items) |-> SqlLiteral(items[k])]

RECURSIVE QuotedValues(_)
\* [f"'{str(v)}'" if isinstance(v, str) else str(v) for v in value if v != '$__all']
QuotedValues(items) ==
  IF items = <<>> THEN <<>>
  ELSE IF items[1] = AllSentinel THEN QuotedValues(Tail(items))
       ELSE <<SqlLiteral(items[1])>> \o QuotedValues(Tail(items))

\* ",".join(quoted_values)
ListReplacement_NoBlank(items) == StrJoin(<<",">>, QuotedValues(items))

\* ", ".join(quoted_values)
ListReplacement(items) == StrJoin(<<",", " ">>, QuotedValues(items))

\* '$__all' in value and len(value) == 1
IsAllSelected(value) ==
  /\ \E k \in 1..Len(value.items) : value.items[k] = AllSentinel
  /\ Len(value.items) = 1

\* the planning state of one query: the dict, the set of condition keys and
\* the warnings logged so far
PlanState(rep, proc, warn) == [rep |-> rep, proc |-> proc, warn |-> warn]

\* src/app.py 554-567: the value is exactly ['$__all']
PlanAllSelected(st, placeholder, text) ==
  LET match == InConditionSearch(text, placeholder)
  IN  IF match.found /\ match.group0 \notin st.proc
      THEN PlanState(RepSet(RepSet(st.rep, match.group0, TRUE, OneEqOne),
                            placeholder, FALSE, <<>>),
                     st.proc \cup {match.group0}, st.warn)
      ELSE IF ~RepHas(st.rep, placeholder)
           THEN PlanState(RepSet(st.rep, placeholder, TRUE, TrueLit), st.proc,
                          Append(st.warn, Diag("is '$__all' but not in a simple IN clause", placeholder)))
           ELSE st

\* src/app.py 568-572: any other list
PlanList(st, placeholder, value) ==
  IF ~RepHas(st.rep, placeholder)
  THEN PlanState(RepSet(st.rep, placeholder, TRUE, ListReplacement(value.items)),
                 st.proc, st.warn)
  ELSE st

\* src/app.py 573-576: a scalar
PlanScalar(st, placeholder, value) ==
  IF ~RepHas(st.rep, placeholder)
  THEN PlanState(RepSet(st.rep, placeholder, TRUE, SqlLiteral(value)), st.proc, st.warn)
  ELSE st

\* the unbound placeholder blanked without a warning
PlanUnbound_Blank(st, placeholder) ==
  PlanState(RepSet(st.rep, placeholder, TRUE, <<>>), st.proc, st.warn)

\* src/app.py 581-583: the name is not in template_variables
PlanUnbound(st, placeholder) ==
  PlanState(RepSet(st.rep, placeholder, TRUE, placeholder), st.proc,
            Append(st.warn, Diag("found in query but not defined in dashboard templating", placeholder)))

\* one iteration of "for var_name in variable_matches": src/app.py 540-583
PlanOne(st, var_name, text, tv) ==
  LET placeholder == Placeholder(var_name)
  IN  IF RepHas(st.rep, placeholder) THEN st
      ELSE IF var_name \in DOMAIN tv
           THEN LET value == tv[var_name]
                IN  IF value.t = "list"
                    THEN IF IsAllSelected(value)
                         THEN PlanAllSelected(st, placeholder, text)
                         ELSE PlanList(st, placeholder, value)
                    ELSE PlanScalar(st, placeholder, value)
           ELSE PlanUnbound(st, placeholder)

\* the loop over variable_matches
RECURSIVE PlanAll(_, _, _, _)
PlanAll(st, names, text, tv) ==
  IF names = <<>> THEN st
  ELSE PlanAll(PlanOne(st, names[1], text, tv), Tail(names), text, tv)

\* stable insertion behind every entry whose key is at least as long
RECURSIVE InsertByLen(_, _)
InsertByLen(sorted, e) ==
  IF sorted = <<>> THEN <<e>>
  ELSE IF Len(sorted[1].key) >= Len(e.key)
       THEN <<sorted[1]>> \o InsertByLen(Tail(sorted), e)
       ELSE <<e>> \o sorted

\* the keys left in insertion order
SortedByLen_Unsorted(rep) == rep

\* sorted(replacements_to_make, key=len, reverse=True): stable
RECURSIVE SortedByLen(_)
SortedByLen(rep) ==
  IF rep = <<>> THEN <<>>
  ELSE InsertByLen(SortedByLen(SubSeq(rep, 1, Len(rep) - 1)), rep[Len(rep)])

(***************************************************************************)
(* Provenance of the characters of the evolving text.  A character of the  *)
(* raw query carries its index in the raw query; a character written by a  *)
(* replacement carries minus the index of the first raw character of the   *)
(* occurrence it stands for.                                               *)
(***************************************************************************)
Abs(n) == IF n < 0 THEN -n ELSE n

RECURSIVE MarksReplaceAt(_, _, _, _, _, _)
MarksReplaceAt(text, marks, key, vlen, i, j) ==
  IF j = 0 THEN SubSeq(marks, i, Len(marks))
  ELSE SubSeq(marks, i, j - 1) \o [k \in 1..vlen |-> -Abs(marks[j])]
       \o MarksReplaceAt(text, marks, key, vlen, j + Len(key), NextStart(text, key, j + Len(key)))

MarksReplaceFrom(text, marks, key, vlen, i) ==
  MarksReplaceAt(text, marks, key, vlen, i, NextStart(text, key, i))

MarksReplace(text, marks, key, vlen) == MarksReplaceFrom(text, marks, key, vlen, 1)

\* what one str.replace did: the key, the value, whether an occurrence
\* began inside an identifier, whether it consumed written characters
ReplaceEvent(text, marks, key, val) ==
  LET occ == Occurrences(text, key)
      pos == {occ[k] : k \in 1..Len(occ)}
  IN  [key |-> key, val |-> val, count |-> Len(occ),
       midword |-> \E i \in pos : i > 1 /\ IsWord(text[i - 1]) /\ IsWord(key[1]),
       rewrote |-> \E i \in pos : \E j \in i..(i + Len(key) - 1) : marks[j] < 0]

\* the loop over the sorted keys: src/app.py 586-592; the state is the text,
\* its marks and the events
RECURSIVE ApplyAll(_, _)
ApplyAll(st, entries) ==
  IF entries = <<>> THEN st
  ELSE LET e == entries[1]
       IN  IF e.has
           THEN ApplyAll([text |-> StrReplace(st.text, e.key, e.val),
                          marks |-> MarksReplace(st.text, st.marks, e.key, Len(e.val)),
                          events |-> Append(st.events, ReplaceEvent(st.text, st.marks, e.key, e.val))],
                         Tail(entries))
           ELSE ApplyAll(st, Tail(entries))

(***************************************************************************)
(* The resolution of one target as a function of its inputs: the passes of *)
(* src/app.py 519-592 one after the other.                                 *)
(***************************************************************************)
\* src/app.py 524-529 with the parsed range r
TimeFilterApplied(text, key, r) ==
  IF r.raised THEN [raised |-> TRUE, sql |-> <<>>]
  ELSE [raised |-> FALSE, sql |-> StrReplace(text, key, r.sql)]

\* src/app.py 521-529 with the match m
AfterTimeFilter(text, m, tf, tt, now) ==
  IF ~m.found THEN [raised |-> FALSE, sql |-> text]
  ELSE TimeFilterApplied(text, m.group0, ParseGrafanaTimeRange(tf, tt, m.group1, now))

\* src/app.py 531-534
AfterInterval(text, tv) ==
  IF Contains(text, IntervalToken)
  THEN StrReplace(text, IntervalToken,
                  Quote \o (IF IntervalName \in DOMAIN tv THEN PyStr(tv[IntervalName])
                            ELSE IntervalDefault) \o Quote)
  ELSE text

\* src/app.py 536-592
AfterPlaceholders(text, tv) ==
  ApplyAll([text |-> text, marks |-> [i \in 1..Len(text) |-> i], events |-> <<>>],
           SortedByLen(PlanAll(PlanState(<<>>, {}, <<>>), FindAllVariables(text),
                               text, tv).rep)).text

\* the text after the interval pass and the placeholder passes, unless raised
AfterVariables(r, tv) ==
  IF r.raised THEN r
  ELSE [raised |-> FALSE, sql |-> AfterPlaceholders(AfterInterval(r.sql, tv), tv)]

\* [raised, sql]: the query handed to execute_databricks_query
ResolveQuery(raw, tv, tf, tt, now) ==
  AfterVariables(AfterTimeFilter(raw, TimeFilterSearch(raw), tf, tt, now), tv)

(***************************************************************************)
(* Inputs: queries built from fragments, binding tables, time ranges.      *)
(***************************************************************************)
\* the longest query, in fragments
MaxFrags == 2

FragInX == <<"x"," ","I","N"," ","(","$","{","v","}",")">>

FragInMax == <<"m","a","x"," ","I","N"," ","(","$","{","v","}",")">>

FragV == <<"$","{","v","}">>

FragU == <<"$","{","u","}">>

FragTimeFilter == <<"$","_","_","t","i","m","e","F","i","l","t","e","r","(","t","s",")">>

FragInterval == <<"'","$","I","n","t","e","r","v","a","l","'">>

FragAnd == <<"A","N","D">>

FragInSpaced == <<"y"," ","I","N"," ","("," ","$","{","u","}"," ",")">>

\* no macro: the interval token without its quotes inside an IN list
FragPlain == <<"c"," ","I","N"," ","(","$","I","n","t","e","r","v","a","l",")">>

Fragments ==
  {FragInX, FragInMax, FragV, FragU, FragTimeFilter, FragInterval,
   FragAnd, FragInSpaced, FragPlain}

\* the fragments of a query are separated by one blank
FragQueries ==
  UNION {{StrJoin(<<" ">>, fs) : fs \in [1..n -> Fragments]} : n \in 0..MaxFrags}

\* the documented end-to-end example
EndToEndQuery ==
  <<"S","E","L","E","C","T"," ","*"," ","F","R","O","M"," ","t"," ","W","H","E","R","E"," ">>
  \o FragTimeFilter \o <<" ">> \o FragAnd \o <<" ">>
  \o <<"u","n","i","t"," ","I","N"," ","(","$","{","u","n","i","t","}",")">>

\* time-filter calls on two columns, each written twice
TimeFilterCallsQuery ==
  <<"$","_","_","t","i","m","e","F","i","l","t","e","r","(","t","s",")"," ","$","_","_","t","i","m","e","F","i","l","t","e","r","(","t","t",")"," ","$","_","_","t","i","m","e","F","i","l","t","e","r","(","t","s",")"," ","$","_","_","t","i","m","e","F","i","l","t","e","r","(","t","t",")">>

Queries == FragQueries \cup {EndToEndQuery, TimeFilterCallsQuery}

NameV == <<"v">>

NameU == <<"u">>

NameUnit == <<"u","n","i","t">>

StrA == StrVal(<<"a">>)

StrB == StrVal(<<"b">>)

AllList == ListVal(<<AllSentinel>>)

UnitAll == NameUnit :> AllList

BindingTables ==
  { UnitAll,
    UnitAll @@ (NameV :> StrA) @@ (NameU :> IntVal(7)) @@ (IntervalName :> StrVal(<<"D","a","i","l","y">>)),
    UnitAll @@ (NameV :> IntVal(5)) @@ (NameU :> AllList),
    UnitAll @@ (NameV :> AllList),
    UnitAll @@ (NameV :> AllList) @@ (NameU :> AllList) @@ (IntervalName :> ListVal(<<StrA, IntVal(5)>>)),
    UnitAll @@ (NameV :> ListVal(<<StrA, StrB>>)) @@ (NameU :> StrB),
    UnitAll @@ (NameV :> ListVal(<<AllSentinel, StrA>>)) @@ (NameU :> ListVal(<<IntVal(7), StrB>>)),
    UnitAll @@ (NameV :> ListVal(<<>>)) @@ (NameU :> IntVal(0)),
    UnitAll @@ (NameV :> AllSentinel) @@ (NameU :> ListVal(<<StrB>>)),
    UnitAll @@ (NameV :> StrA) }

OneDayAgo == <<"n","o","w","-","1","d">>

BadSpec == <<"b","a","d">>

\* <<time_from, time_to>>
TimeRanges == {<<OneDayAgo, Now_>>, <<BadSpec, BadSpec>>, <<Now_, BadSpec>>}

EndToEndInstant == DateTime(2024, 1, 2, 0, 0, 0)

Instants == {EndToEndInstant, DateTime(2023, 3, 31, 12, 34, 56)}

(***************************************************************************)
(* One query target of view_dashboard, pass by pass.                       *)
(***************************************************************************)
VARIABLES
  raw_sql,               \* target.get('rawSql')
  template_variables,    \* name -> current value
  time_from, time_to,    \* the dashboard's time range
  utcnow,                \* what datetime.utcnow() returns
  interpolated_sql,      \* the evolving text
  origin,                \* provenance of each character of interpolated_sql
  replacements_to_make,
  processed_conditions,
  warnings,              \* app.logger.warning records of this target
  events,                \* the str.replace calls made, in order
  executed,              \* the queries handed to execute_databricks_query
  pc,
  dt_from, dt_to,        \* locals of parse_grafana_time_range
  error_msg,
  returned,              \* what parse_grafana_time_range returns
  dashboard_data,        \* request -> the dashboard grafana_api.get_dashboard returns
  request,               \* request -> the locals of its view_dashboard call
  clock,                 \* the system clock datetime.utcnow() reads
  GEMINI_TESTING_MODE,   \* module globals of app.py
  GEMINI_MOCK_RESPONSE,
  GEMINI_API_KEY,
  mcp_client,            \* TRUE when the client object exists
  set_calls,             \* the calls of set_gemini_testing_mode made so far
  last_call,             \* the latest call of an insights function and what it did
  route_uid,             \* session -> the uid in the URL of its requests
  tempdir,               \* tempfile.gettempdir(): uid -> the text of insights_<uid>.html
  session,               \* session -> its dashboard_<uid>_insights_path entries
  view,                  \* session -> what its latest view computed and answered
  download               \* session -> what its latest PDF download answered

\* the locals of one target of view_dashboard
target_vars ==
  <<raw_sql, template_variables, time_from, time_to, utcnow, interpolated_sql,
    origin, replacements_to_make, processed_conditions, warnings, events,
    executed, pc>>

\* the locals of one call of parse_grafana_time_range
parse_vars == <<dt_from, dt_to, error_msg, returned>>

\* the requests being served
request_vars == <<dashboard_data, request, clock>>

\* the globals of the insights functions and the log of their calls
gemini_vars ==
  <<GEMINI_TESTING_MODE, GEMINI_MOCK_RESPONSE, GEMINI_API_KEY, mcp_client, set_calls, last_call>>

\* what the views and the downloads of the sessions share and answer
view_vars == <<route_uid, tempdir, session, view, download>>

service_vars == <<gemini_vars, view_vars>>

vars == <<target_vars, parse_vars, request_vars, service_vars>>

inputs == <<raw_sql, template_variables, time_from, time_to, utcnow>>

\* a local that is not assigned yet
Unset == [k |-> "unset"]

\* no call of parse_grafana_time_range is being followed
ParseIdle ==
  /\ dt_from = Unset
  /\ dt_to = Unset
  /\ error_msg = NoDiag
  /\ returned = Unset

\* no request is being followed
RequestIdle ==
  /\ dashboard_data = <<>>
  /\ request = <<>>
  /\ clock = Unset

\* no insights function and no session is being followed
ServiceIdle ==
  /\ GEMINI_TESTING_MODE = FALSE
  /\ GEMINI_MOCK_RESPONSE = <<>>
  /\ GEMINI_API_KEY = Unset
  /\ mcp_client = FALSE
  /\ set_calls = <<>>
  /\ last_call = Unset
  /\ route_uid = <<>>
  /\ tempdir = <<>>
  /\ session = <<>>
  /\ view = <<>>
  /\ download = <<>>

\* src/app.py 495-519: the inputs of one target and interpolated_sql = raw_sql
Init ==
  /\ raw_sql \in Queries
  /\ template_variables \in BindingTables
  /\ \E tr \in TimeRanges : time_from = tr[1] /\ time_to = tr[2]
  /\ utcnow \in Instants
  /\ interpolated_sql = raw_sql
  /\ origin = [i \in 1..Len(raw_sql) |-> i]
  /\ replacements_to_make = <<>>
  /\ processed_conditions = {}
  /\ warnings = <<>>
  /\ events = <<>>
  /\ executed = <<>>
  /\ pc = "timefilter"
  /\ ParseIdle
  /\ RequestIdle
  /\ ServiceIdle

\* src/app.py 521-529
TimeFilterPass ==
  /\ pc = "timefilter"
  /\ LET m == TimeFilterSearch(interpolated_sql)
     IN  IF ~m.found
         THEN /\ pc' = "interval"
              /\ UNCHANGED <<interpolated_sql, origin, warnings, events>>
         ELSE LET r == ParseGrafanaTimeRange(time_from, time_to, m.group1, utcnow)
              IN  IF r.raised
                  THEN /\ pc' = "error"
                       /\ UNCHANGED <<interpolated_sql, origin, warnings, events>>
                  ELSE /\ interpolated_sql' = StrReplace(interpolated_sql, m.group0, r.sql)
                       /\ origin' = MarksReplace(interpolated_sql, origin, m.group0, Len(r.sql))
                       /\ events' = Append(events, ReplaceEvent(interpolated_sql, origin, m.group0, r.sql))
                       /\ warnings' = IF r.err # NoDiag THEN Append(warnings, r.err) ELSE warnings
                       /\ pc' = "interval"
  /\ UNCHANGED <<inputs, parse_vars, request_vars, service_vars, replacements_to_make, processed_conditions, executed>>

\* template_variables.get('Interval', 'Monthly'), formatted by the f-string
IntervalValue(tv) ==
  IF IntervalName \in DOMAIN tv THEN PyStr(tv[IntervalName]) ELSE IntervalDefault

\* src/app.py 531-534
IntervalPass ==
  /\ pc = "interval"
  /\ IF Contains(interpolated_sql, IntervalToken)
     THEN LET val == Quote \o IntervalValue(template_variables) \o Quote
          IN  /\ interpolated_sql' = StrReplace(interpolated_sql, IntervalToken, val)
              /\ origin' = MarksReplace(interpolated_sql, origin, IntervalToken, Len(val))
              /\ events' = Append(events, ReplaceEvent(interpolated_sql, origin, IntervalToken, val))
     ELSE UNCHANGED <<interpolated_sql, origin, events>>
  /\ pc' = "plan"
  /\ UNCHANGED <<inputs, parse_vars, request_vars, service_vars, replacements_to_make, processed_conditions, warnings, executed>>

\* src/app.py 536-583
PlanPass ==
  /\ pc = "plan"
  /\ LET st == PlanAll(PlanState(<<>>, {}, warnings),
                       FindAllVariables(interpolated_sql), interpolated_sql,
                       template_variables)
     IN  /\ replacements_to_make' = st.rep
         /\ processed_conditions' = st.proc
         /\ warnings' = st.warn
  /\ pc' = "apply"
  /\ UNCHANGED <<inputs, parse_vars, request_vars, service_vars, interpolated_sql, origin, events, executed>>

\* src/app.py 585-592
ApplyPass ==
  /\ pc = "apply"
  /\ LET st == ApplyAll([text |-> interpolated_sql, marks |-> origin, events |-> events],
                        SortedByLen(replacements_to_make))
     IN  /\ interpolated_sql' = st.text
         /\ origin' = st.marks
         /\ events' = st.events
  /\ pc' = "execute"
  /\ UNCHANGED <<inputs, parse_vars, request_vars, service_vars, replacements_to_make, processed_conditions, warnings, executed>>

\* src/app.py 596-604
Execute ==
  /\ pc = "execute"
  /\ executed' = Append(executed, interpolated_sql)
  /\ pc' = "done"
  /\ UNCHANGED <<inputs, parse_vars, request_vars, service_vars, interpolated_sql, origin, replacements_to_make,
                 processed_conditions, warnings, events>>

Next == TimeFilterPass \/ IntervalPass \/ PlanPass \/ ApplyPass \/ Execute

Spec == Init /\ [][Next]_vars

(***************************************************************************)
(* Vocabulary of the properties.                                           *)
(***************************************************************************)
Done == pc = "done"

\* the raw character at index a is still in the text
Survives(a) == \E i \in 1..Len(origin) : origin[i] = a

\* every raw character of a..b has been consumed
Replaced(a, b) == \A k \in a..b : ~Survives(k)

\* the text written for the occurrence that began at raw index a
Written(a) ==
  LET P == {i \in 1..Len(origin) : origin[i] = -a}
  IN  IF P = {} THEN <<>> ELSE SubSeq(interpolated_sql, SetMin(P), SetMax(P))

\* start indices of key in the raw query
RawAt(key) == {a \in 1..Len(raw_sql) : StartsAt(raw_sql, a, key)}

Names == {NameV, NameU, NameUnit}

IsBound(name) == name \in DOMAIN template_variables

IsScalar(v) == v.t \in {"str", "int"}

\* the forms of <identifier> IN ( <placeholder> ) the queries hold
CondTexts(name) ==
  {ident \o <<" ","I","N"," ","(">> \o sp \o <<"$","{">> \o name \o <<"}">> \o sp \o <<")">> :
     ident \in {<<"x">>, <<"m","a","x">>, <<"y">>, NameUnit}, sp \in {<<>>, <<" ">>}}

\* <<a, text>>: a condition on name starts at raw index a, at an identifier
\* boundary
CondSpans(name) ==
  {p \in (1..Len(raw_sql)) \X CondTexts(name) :
     /\ StartsAt(raw_sql, p[1], p[2])
     /\ p[1] = 1 \/ ~IsWord(raw_sql[p[1] - 1])}

HasEvent(key) == \E k \in 1..Len(events) : events[k].key = key /\ events[k].count > 0

\* the str.replace calls of the generic pass
GenericEvents == SelectSeq(events, LAMBDA e : RepHas(replacements_to_make, e.key))

EndToEndExpected ==
  <<"S","E","L","E","C","T"," ","*"," ","F","R","O","M"," ","t"," ","W","H","E","R","E"," ","t","s"," ",">","="," ","'","2","0","2","4","-","0","1","-","0","1"," ","0","0",":","0","0",":","0","0","'"," ","A","N","D"," ","t","s"," ","<","="," ","'","2","0","2","4","-","0","1","-","0","2"," ","0","0",":","0","0",":","0","0","'"," ","A","N","D"," ","1","=","1">>

EndToEndInput ==
  /\ raw_sql = EndToEndQuery
  /\ time_from = <<"n","o","w","-","1","d">>
  /\ time_to = <<"n","o","w">>
  /\ template_variables = (NameUnit :> ListVal(<<AllSentinel>>))
  /\ utcnow = DateTime(2024, 1, 2, 0, 0, 0)

\* C1: the documented end-to-end example resolves to exactly the documented
\* text, by the time-filter replacement followed by the replacement of the
\* IN-condition, and that text is what is executed.
C1_EndToEnd ==
  (Done /\ EndToEndInput) =>
    /\ interpolated_sql = EndToEndExpected
    /\ executed = <<EndToEndExpected>>
    /\ [k \in 1..Len(events) |-> events[k].key]
         = <<FragTimeFilter, <<"u","n","i","t"," ","I","N"," ","(","$","{","u","n","i","t","}",")">> >>

C1_Witness == Done /\ EndToEndInput /\ Len(events) = 2

\* C2: the keys of the generic pass are applied in order of non-increasing
\* length, no replacement rewrites characters an earlier replacement wrote,
\* and a placeholder nested in a planned IN-condition has no replacement of
\* its own: the condition is replaced by 1=1 and the placeholder is skipped.
C2_NoSpanSubstitutedTwice ==
  pc \in {"execute", "done"} =>
    LET g == GenericEvents
    IN  /\ \A k \in 1..(Len(g) - 1) : Len(g[k].key) >= Len(g[k + 1].key)
        /\ \A k \in 1..Len(events) : ~events[k].rewrote
        /\ \A c \in processed_conditions :
             /\ \E k \in 1..Len(g) : g[k].key = c /\ g[k].val = <<"1","=","1">>
             /\ \A j \in 1..Len(replacements_to_make) :
                  LET e == replacements_to_make[j]
                  IN  (e.key # c /\ Contains(c, e.key)) =>
                        /\ ~e.has
                        /\ \A k \in 1..Len(g) : g[k].key # e.key

C2_Witness ==
  /\ Done
  /\ processed_conditions # {}
  /\ \E k \in 1..Len(GenericEvents) : \E j \in 1..Len(GenericEvents) :
       /\ k < j
       /\ GenericEvents[k].key \in processed_conditions
       /\ GenericEvents[k].count > 0
       /\ GenericEvents[j].count > 0
       /\ Len(GenericEvents[j].key) < Len(GenericEvents[k].key)

\* C3: after the substitution of a query no placeholder of a bound variable
\* is left in the text.
C3_EveryOccurrenceResolved ==
  Done => \A name \in Names :
            IsBound(name) => ~Contains(interpolated_sql, Placeholder(name))

\* raw indices inside an occurrence of a macro: the time-filter call, the
\* quoted interval token, a placeholder, an IN-condition at an identifier
\* boundary
MacroPositions ==
  UNION {{a + k : k \in 0..(Len(t) - 1)} :
           <<a, t>> \in {p \in (1..Len(raw_sql))
                              \X ({FragTimeFilter, FragInterval}
                                  \cup {Placeholder(n) : n \in Names}) :
                           StartsAt(raw_sql, p[1], p[2])}
                        \cup UNION {CondSpans(n) : n \in Names}}

\* C4: the text changes only inside the located macro occurrences: every
\* consumed raw character lies in one, every surviving character is the raw
\* one, and a replaced occurrence of a condition key begins at an identifier
\* boundary.
C4_OnlyMacroSpansChange ==
  Done =>
    /\ \A a \in 1..Len(raw_sql) : ~Survives(a) => a \in MacroPositions
    /\ \A i \in 1..Len(origin) :
         origin[i] > 0 => interpolated_sql[i] = raw_sql[origin[i]]
    /\ \A k \in 1..Len(events) : ~events[k].midword

C6_AllSelectedBare ==
  Done =>
    \A name \in Names :
      (/\ IsBound(name) /\ template_variables[name] = ListVal(<<AllSentinel>>)
       /\ CondSpans(name) = {}) =>
        \A a \in RawAt(Placeholder(name)) :
          /\ Replaced(a, a + Len(Placeholder(name)) - 1)
          /\ Written(a) = <<"T","R","U","E">>

C6_Witness ==
  /\ Done
  /\ IsBound(NameV) /\ template_variables[NameV] = ListVal(<<AllSentinel>>)
  /\ CondSpans(NameV) = {}
  /\ Cardinality(RawAt(Placeholder(NameV))) = 2

ListAB == ListVal(<<StrVal(<<"a">>), StrVal(<<"b">>)>>)

\* C7 as stated: a variable bound to ["a","b"] and used in IN (${name})
\* yields IN ('a','b').
C7_ListNoBlank ==
  (Done /\ IsBound(NameV) /\ template_variables[NameV] = ListAB
        /\ CondSpans(NameV) # {}) =>
    Contains(interpolated_sql, <<"I","N"," ","(","'","a","'",",","'","b","'",")">>)

\* each element in single quotes, joined by a comma and a blank
RECURSIVE QuotedCommaBlank(_)
QuotedCommaBlank(items) ==
  IF items = <<>> THEN <<>>
  ELSE <<"'">> \o items[1].s \o <<"'">>
       \o (IF Len(items) > 1 THEN <<",", " ">> ELSE <<>>)
       \o QuotedCommaBlank(Tail(items))

IsStringList(v) ==
  /\ v.t = "list"
  /\ Len(v.items) >= 1
  /\ \A k \in 1..Len(v.items) : v.items[k].t = "str" /\ v.items[k] # AllSentinel

\* C7 amended: every placeholder of a variable bound to a list of strings is
\* replaced by the values in single quotes separated by a comma and a blank,
\* so ["a","b"] in IN (${name}) yields IN ('a', 'b').
C7_ListCommaBlank ==
  Done =>
    \A name \in Names :
      (IsBound(name) /\ IsStringList(template_variables[name])) =>
        /\ \A a \in RawAt(Placeholder(name)) :
             /\ Replaced(a, a + Len(Placeholder(name)) - 1)
             /\ Written(a) = QuotedCommaBlank(template_variables[name].items)
        /\ (template_variables[name] = ListAB /\ CondSpans(name) # {}) =>
             Contains(interpolated_sql, <<"I","N"," ","(","'","a","'",","," ","'","b","'",")">>)

C7_Witness ==
  /\ Done
  /\ IsBound(NameV) /\ template_variables[NameV] = ListAB
  /\ CondSpans(NameV) # {}
  /\ Contains(interpolated_sql, <<"I","N"," ","(","'","a","'",","," ","'","b","'",")">>)

\* 'v' for a string, the decimal digits for an int
ScalarLiteral(v) == IF v.t = "str" THEN <<"'">> \o v.s \o <<"'">> ELSE IntToStr(v.n)

\* C8: every placeholder of a variable bound to a scalar is replaced by the
\* scalar as a literal: a string in single quotes, unescaped; an int as its
\* digits.
C8_ScalarLiteral ==
  Done =>
    \A name \in Names :
      (IsBound(name) /\ IsScalar(template_variables[name])) =>
        \A a \in RawAt(Placeholder(name)) :
          /\ Replaced(a, a + Len(Placeholder(name)) - 1)
          /\ Written(a) = ScalarLiteral(template_variables[name])

C8_Witness ==
  /\ Done
  /\ IsBound(NameV) /\ template_variables[NameV].t = "str"
  /\ IsBound(NameU) /\ template_variables[NameU].t = "int"
  /\ RawAt(Placeholder(NameV)) # {}
  /\ RawAt(Placeholder(NameU)) # {}

\* the text that stands where the raw characters a..b stood
Standing(a, b) ==
  LET P == {i \in 1..Len(origin) : Abs(origin[i]) \in a..b}
  IN  IF P = {} THEN <<>> ELSE SubSeq(interpolated_sql, SetMin(P), SetMax(P))

\* C9: a placeholder of an unbound name stands unchanged in the resolved
\* text, a warning naming it is logged, the placeholders of bound scalars are
\* still replaced and the query is executed.
C9_UnboundLeft ==
  Done =>
    \A name \in Names :
      (~IsBound(name) /\ RawAt(Placeholder(name)) # {}) =>
        /\ \A a \in RawAt(Placeholder(name)) :
             Standing(a, a + Len(Placeholder(name)) - 1) = Placeholder(name)
        /\ \E k \in 1..Len(warnings) : warnings[k].arg = Placeholder(name)
        /\ executed = <<interpolated_sql>>
        /\ \A other \in Names :
             (IsBound(other) /\ IsScalar(template_variables[other])) =>
               ~Contains(interpolated_sql, Placeholder(other))

C9_Witness ==
  /\ Done
  /\ ~IsBound(NameU) /\ RawAt(Placeholder(NameU)) # {}
  /\ IsBound(NameV) /\ IsScalar(template_variables[NameV])
  /\ RawAt(Placeholder(NameV)) # {}

HasTimeFilterCall(text) ==
  \E i \in 1..Len(text) : \E j \in (i + 15)..Len(text) :
    /\ StartsAt(text, i, <<"$","_","_","t","i","m","e","F","i","l","t","e","r","(">>)
    /\ text[j] = ")"
    /\ \A k \in (i + 14)..(j - 1) : IsWord(text[k])

HasPlaceholder(text) ==
  \E i \in 1..Len(text) : \E j \in (i + 3)..Len(text) :
    /\ StartsAt(text, i, <<"$","{">>)
    /\ text[j] = "}"
    /\ \A k \in (i + 2)..(j - 1) : IsWord(text[k])

MacroFree(text) ==
  /\ ~HasTimeFilterCall(text)
  /\ ~Contains(text, <<"'","$","I","n","t","e","r","v","a","l","'">>)
  /\ ~HasPlaceholder(text)

\* C10: a query without a time-filter call, a quoted interval token or a
\* placeholder keeps its text through every pass and is executed as it is.
C10_MacroFreeUnchanged ==
  MacroFree(raw_sql) =>
    /\ interpolated_sql = raw_sql
    /\ Done => executed = <<raw_sql>>

C10_Witness ==
  /\ Done
  /\ MacroFree(raw_sql)
  /\ Contains(raw_sql, <<"$","I","n","t","e","r","v","a","l">>)
  /\ IntervalName \in DOMAIN template_variables

\* start indices of the $__timeFilter(<column>) calls of the raw query
FilterCalls == {a \in 1..Len(raw_sql) : TimeFilterEndAt(raw_sql, a) > 0}

CallEnd(a) == TimeFilterEndAt(raw_sql, a)

CallText(a) == SubSeq(raw_sql, a, CallEnd(a))

FirstCall == SetMin(FilterCalls)

\* the call that starts at raw index a stands in the text as it was written
CallStands(a) ==
  /\ \A k \in a..CallEnd(a) : Survives(k)
  /\ Standing(a, CallEnd(a)) = CallText(a)

\* the call that starts at raw index a was consumed whole and the boundary
\* condition on its column was written for it
CallResolved(a) ==
  /\ Replaced(a, CallEnd(a))
  /\ Written(a) = ParseGrafanaTimeRange(time_from, time_to,
                    SubSeq(raw_sql, a + Len(TimeFilterOpen), CallEnd(a) - 1), utcnow).sql

\* C15 as stated: with several time-filter calls only the first is replaced,
\* every later one, on the same column or another, is left unchanged
C15_OnlyFirstReplaced ==
  (Done /\ Cardinality(FilterCalls) > 1) =>
    /\ CallResolved(FirstCall)
    /\ \A a \in FilterCalls \ {FirstCall} : CallStands(a)

\* C15: with several time-filter calls the first call and every later call
\* written exactly like it are replaced by the boundary condition, whole;
\* the calls on another column are left unchanged
C15_EqualCallsReplaced ==
  (Done /\ Cardinality(FilterCalls) > 1) =>
    \A a \in FilterCalls :
      IF CallText(a) = CallText(FirstCall) THEN CallResolved(a) ELSE CallStands(a)

C15_Witness ==
  /\ Done
  /\ raw_sql = TimeFilterCallsQuery
  /\ time_from = OneDayAgo
  /\ Cardinality({a \in FilterCalls : CallResolved(a)}) = 2
  /\ Cardinality({a \in FilterCalls : CallStands(a)}) = 2

(***************************************************************************)
(* One call of parse_grafana_time_range, section by section.               *)
(***************************************************************************)
\* the largest plain amount N of the relative specs now-<N><unit>
MaxAmount == 2

\* amounts that cross a day, a year or a leap day, and one with leading zeros
SpecialAmounts == {<<"1","2">>, <<"1","3">>, <<"2","5">>, <<"0","0","7">>}

Amounts == {NatToStr(n) : n \in 0..MaxAmount} \cup SpecialAmounts

RelativeSpecs == {NowMinus \o a \o <<u>> : a \in Amounts, u \in UnitChars}

\* a relative spec with a rounding suffix, and relative texts the pattern rejects
OtherRelativeSpecs ==
  {<<"n","o","w","-","1","d","/","d">>,
   <<"n","o","w","-">>,
   <<"n","o","w","-","5">>,
   <<"n","o","w","-","1","x">>,
   <<"n","o","w","-","d">>}

\* offsets that leave the range of datetime or of timedelta
FarSpecs ==
  {<<"n","o","w","-","9","9","9","9","9","9","9","9","9","d">>,
   <<"n","o","w","-","9","9","9","9","9","9","9","9","9","9","9","d">>,
   <<"n","o","w","-","9","9","9","9","9","9","9","9","9","h">>,
   <<"n","o","w","-","3","0","0","0","y">>,
   <<"n","o","w","-","9","9","9","9","9","9","9","9","9","9","9","y">>}

\* absolute specs: ISO texts, epoch milliseconds, and texts that are neither
AbsoluteSpecs ==
  {<<"2","0","2","4","-","0","1","-","0","1">>,
   <<"2","0","2","4","-","0","1","-","0","1","T","0","0",":","0","0",":","0","0","Z">>,
   <<"2","0","2","4","-","0","2","-","3","0">>,
   <<"1","7","0","0","0","0","0","0","0","0","0","0","0">>,
   <<"0">>,
   <<"9","9","9","9","9","9","9","9","9","9","9","9","9","9","9","9","9">>,
   <<"9","9","9","9","9","9","9","9","9","9","9","9","9","9","9","9","9","9","9","9">>,
   <<"b","a","d">>,
   <<>>}

TimeSpecs == RelativeSpecs \cup OtherRelativeSpecs \cup FarSpecs \cup AbsoluteSpecs \cup {Now_}

ParseInstants ==
  {EndToEndInstant, DateTime(2023, 3, 31, 12, 34, 56),
   DateTime(2024, 2, 29, 23, 59, 59), DateTime(2024, 3, 1, 0, 30, 0)}

ColumnTs == <<"t","s">>

\* the inputs of no target: the locals of view_dashboard are not followed
TargetIdle ==
  /\ raw_sql = <<>>
  /\ template_variables = <<>>
  /\ interpolated_sql = <<>>
  /\ origin = <<>>
  /\ replacements_to_make = <<>>
  /\ processed_conditions = {}
  /\ warnings = <<>>
  /\ events = <<>>
  /\ executed = <<>>

\* src/app.py 164-171: the arguments, now = datetime.utcnow(), error_msg = None
InitTime ==
  /\ time_from \in TimeSpecs
  /\ time_to \in TimeSpecs
  /\ utcnow \in ParseInstants
  /\ TargetIdle
  /\ ParseIdle
  /\ RequestIdle
  /\ ServiceIdle
  /\ pc = "from"

\* src/app.py 174-203
ParseFrom ==
  /\ pc = "from"
  /\ LET b == ParseBound(time_from, utcnow, "from")
     IN  IF b.r.k = "raise"
         THEN /\ pc' = "raised"
              /\ UNCHANGED <<dt_from, error_msg>>
         ELSE /\ dt_from' = b.r
              /\ error_msg' = b.err
              /\ pc' = "to"
  /\ UNCHANGED <<inputs, request_vars, service_vars, interpolated_sql, origin, replacements_to_make,
                 processed_conditions, warnings, events, executed, dt_to, returned>>

\* src/app.py 206-233
ParseTo ==
  /\ pc = "to"
  /\ LET b == ParseBound(time_to, utcnow, "to")
     IN  IF b.r.k = "raise"
         THEN /\ pc' = "raised"
              /\ UNCHANGED <<dt_to, error_msg>>
         ELSE /\ dt_to' = b.r
              /\ error_msg' = IF error_msg # NoDiag THEN error_msg ELSE b.err
              /\ pc' = "build"
  /\ UNCHANGED <<inputs, request_vars, service_vars, interpolated_sql, origin, replacements_to_make,
                 processed_conditions, warnings, events, executed, dt_from, returned>>

\* src/app.py 235-244
BuildCondition ==
  /\ pc = "build"
  /\ returned' = RangeCondition(Bound(dt_from, error_msg), Bound(dt_to, NoDiag), ColumnTs)
  /\ pc' = "returned"
  /\ UNCHANGED <<inputs, request_vars, service_vars, interpolated_sql, origin, replacements_to_make,
                 processed_conditions, warnings, events, executed,
                 dt_from, dt_to, error_msg>>

NextTime == ParseFrom \/ ParseTo \/ BuildCondition

SpecTime == InitTime /\ [][NextTime]_vars

(***************************************************************************)
(* Properties of the time range.                                           *)
(***************************************************************************)
\* seconds since 1970-01-01 (the instants of the model lie before 2038)
Seconds(dt) == dt.d * 86400 + dt.s

\* spec is now-<N><unit> with a unit of units and N of one to three digits
IsPlainRelative(spec, units) ==
  /\ Len(spec) >= 6
  /\ Len(spec) <= 8
  /\ SubSeq(spec, 1, 4) = NowMinus
  /\ spec[Len(spec)] \in units
  /\ \A i \in 5..(Len(spec) - 1) : spec[i] \in DigitChars

AmountOf(spec) == StrToNat(SubSeq(spec, 5, Len(spec) - 1))

UnitOf(spec) == spec[Len(spec)]

UnitSeconds(u) == IF u = "h" THEN 3600 ELSE IF u = "d" THEN 86400 ELSE 604800

\* the bound b is present and lies exactly N units before the reference instant
ExactBound(b, spec) ==
  /\ b.k = "dt"
  /\ Seconds(b.dt) = Seconds(utcnow) - AmountOf(spec) * UnitSeconds(UnitOf(spec))

\* C11: for every now-<N>h, now-<N>d, now-<N>w with N >= 0, as from or as to,
\* the resolved bound is present and is the reference instant minus N units
C11_RelativeExact ==
  /\ (dt_from # Unset /\ IsPlainRelative(time_from, {"h", "d", "w"}))
       => ExactBound(dt_from, time_from)
  /\ (dt_to # Unset /\ IsPlainRelative(time_to, {"h", "d", "w"}))
       => ExactBound(dt_to, time_to)

\* months counted from year 0
MonthIndex(c) == c.y * 12 + c.m - 1

\* the civil date of month index k with the day dd, or the last day of that month
DayInMonthIndex(k, dd) ==
  [y |-> k \div 12, m |-> (k % 12) + 1,
   d |-> IF dd > DaysInMonth(k \div 12, (k % 12) + 1)
         THEN DaysInMonth(k \div 12, (k % 12) + 1) ELSE dd]

MonthsOf(spec) == IF UnitOf(spec) = "y" THEN 12 * AmountOf(spec) ELSE AmountOf(spec)

\* the bound b, when present, is the reference date moved back by whole months
\* with the day kept or clamped, at the same time of day
CalendarBound(b, spec) ==
  b.k = "dt" =>
    /\ CivilFromDays(b.dt.d)
         = DayInMonthIndex(MonthIndex(CivilFromDays(utcnow.d)) - MonthsOf(spec),
                           CivilFromDays(utcnow.d).d)
    /\ b.dt.s = utcnow.s

NowMinusOneMonth == <<"n","o","w","-","1","M">>

\* C12: month and year offsets keep the day of the month unless the target
\* month is shorter, then its last day is used; now-1M at 2023-03-31 is 2023-02-28
C12_MonthClamping ==
  /\ (dt_from # Unset /\ IsPlainRelative(time_from, {"M", "y"}))
       => CalendarBound(dt_from, time_from)
  /\ (dt_to # Unset /\ IsPlainRelative(time_to, {"M", "y"}))
       => CalendarBound(dt_to, time_to)
  /\ (dt_from # Unset /\ time_from = NowMinusOneMonth
      /\ utcnow = DateTime(2023, 3, 31, 12, 34, 56))
       => dt_from = Some(DateTime(2023, 2, 28, 12, 34, 56))

C12_Witness ==
  /\ pc = "returned"
  /\ time_from = NowMinusOneMonth
  /\ utcnow = DateTime(2023, 3, 31, 12, 34, 56)
  /\ dt_from = Some(DateTime(2023, 2, 28, 12, 34, 56))
  /\ IsPlainRelative(time_to, {"y"}) /\ dt_to.k = "dt"

\* <column> <op> '<instant>'
Clause(op, dt) == ColumnTs \o <<" ">> \o op \o <<" ">> \o Quote \o Strftime(dt) \o Quote

GreaterEq == <<">", "=">>

LessEq == <<"<", "=">>

\* the index of the unit of a relative spec: the first one after the digits
UnitIndex(spec) == RunEnd(spec, 5, DigitChars) + 1

\* the diagnostic the from spec gets when it leaves its bound absent
FromDiagnostic(spec) ==
  IF Len(spec) >= 4 /\ SubSeq(spec, 1, 4) = NowMinus
  THEN IF UnitIndex(spec) > 5 /\ UnitIndex(spec) <= Len(spec)
          /\ spec[UnitIndex(spec)] \in UnitChars
       THEN Diag("Unsupported relative time unit: ", <<spec[UnitIndex(spec)]>>)
       ELSE Diag("Could not parse relative 'from' time: ", spec)
  ELSE Diag("Could not parse absolute 'from' time: ", spec)

\* C13: one clause per resolved bound, from before to, joined by AND; 1=1 and
\* a diagnostic when neither resolved; no diagnostic exactly when both
\* resolved; the from diagnostic when both specs are bad
C13_BoundaryCondition ==
  pc = "returned" =>
    /\ (dt_from.k = "dt" /\ dt_to.k = "dt")
         => returned.sql = Clause(GreaterEq, dt_from.dt) \o <<" ","A","N","D"," ">>
                           \o Clause(LessEq, dt_to.dt)
    /\ (dt_from.k = "dt" /\ dt_to.k # "dt")
         => returned.sql = Clause(GreaterEq, dt_from.dt)
    /\ (dt_from.k # "dt" /\ dt_to.k = "dt")
         => returned.sql = Clause(LessEq, dt_to.dt)
    /\ (dt_from.k # "dt" /\ dt_to.k # "dt")
         => returned.sql = <<"1","=","1">> /\ returned.err.msg # ""
    /\ (returned.err = NoDiag) <=> (dt_from.k = "dt" /\ dt_to.k = "dt")
    /\ (dt_from.k # "dt" /\ dt_to.k # "dt")
         => returned.err = FromDiagnostic(time_from)

C13_Witness ==
  /\ pc = "returned"
  /\ dt_from.k = "dt"
  /\ dt_to.k = "none"
  /\ returned.sql = Clause(GreaterEq, dt_from.dt)
  /\ returned.err.msg = "Could not parse absolute 'to' time: "

\* C14: resolution never raises, whatever the two spec strings are
C14_NeverRaises == pc # "raised"

(***************************************************************************)
(* The requests of view_dashboard: the binding table, the time range and   *)
(* the loop over the panels and their targets, for requests that may run   *)
(* at the same time.                                                       *)
(***************************************************************************)
Requests == 1..2

\* the seconds the clock may advance while the requests run
MaxTicks == 1

\* what dict.get finds: a value, or nothing
Present(v) == [has |-> TRUE, v |-> v]

Missing == [has |-> FALSE]

DatabricksUid == <<"d","d","j","m","o","o","c","1","s","o","5","4","w","c">>

UntitledPanel == <<"U","n","t","i","t","l","e","d"," ","P","a","n","e","l">>

SixHoursAgo == <<"n","o","w","-","6","h">>

FarSpec == <<"n","o","w","-","9","9","9","9","9","9","9","9","9","9","9","d">>

QueryInfix == <<" ","-"," ","Q","u","e","r","y"," ">>

\* values of panel['datasource']
DatasourceOf(uid) == Present([kind |-> "dict", uid |-> Present(uid)])

DatasourceNoUid == Present([kind |-> "dict", uid |-> Missing])

DatasourceName == Present([kind |-> "str", s |-> DatabricksUid])

OtherUid == <<"o","t","h","e","r">>

Panel(datasource, title, targets) ==
  [datasource |-> datasource, title |-> title, targets |-> targets]

Target(rawSql) == [rawSql |-> rawSql]

TemplateVar(name, current) == [name |-> name, current |-> current]

TimeOf(from, to) == [from |-> from, to |-> to]

Dashboard(templating, time, panels) ==
  [templating |-> templating, time |-> time, panels |-> panels]

TitleA == <<"A">>

TitleB == <<"B">>

QueryPlain == <<"S","E","L","E","C","T"," ","1">>

\* two targets with the time filter around a target without rawSql
DashTimeFilter ==
  Dashboard(<<TemplateVar(NameV, Present(StrA))>>,
            TimeOf(Present(OneDayAgo), Present(Now_)),
            <<Panel(DatasourceOf(DatabricksUid), Present(TitleA),
                    <<Target(Present(FragTimeFilter)), Target(Missing),
                      Target(Present(FragTimeFilter))>>)>>)

\* a name listed twice, a variable without current value, no time range,
\* two panels with one title
DashDuplicates ==
  Dashboard(<<TemplateVar(NameV, Present(StrA)),
              TemplateVar(NameU, Missing),
              TemplateVar(NameV, Present(ListVal(<<StrA, StrB>>)))>>,
            TimeOf(Missing, Missing),
            <<Panel(DatasourceOf(DatabricksUid), Present(TitleA), <<Target(Present(FragInX))>>),
              Panel(DatasourceOf(DatabricksUid), Present(TitleA), <<Target(Present(FragU))>>)>>)

\* panels and targets that are skipped, among ones that are not
DashSkips ==
  Dashboard(<<TemplateVar(NameV, Present(IntVal(5)))>>,
            TimeOf(Present(OneDayAgo), Present(Now_)),
            <<Panel(Missing, Present(TitleA), <<Target(Present(QueryPlain))>>),
              Panel(DatasourceName, Present(TitleB), <<Target(Present(QueryPlain))>>),
              Panel(DatasourceOf(OtherUid), Present(TitleA), <<Target(Present(QueryPlain))>>),
              Panel(DatasourceNoUid, Present(TitleB), <<Target(Present(QueryPlain))>>),
              Panel(DatasourceOf(DatabricksUid), Present(TitleB), <<>>),
              Panel(DatasourceOf(DatabricksUid), Missing,
                    <<Target(Present(<<>>)), Target(Present(FragInX))>>)>>)

\* a time range that makes parse_grafana_time_range raise
DashFar ==
  Dashboard(<<>>,
            TimeOf(Present(FarSpec), Present(Now_)),
            <<Panel(DatasourceOf(DatabricksUid), Present(TitleA),
                    <<Target(Present(QueryPlain)), Target(Present(FragTimeFilter)),
                      Target(Present(QueryPlain))>>)>>)

Dashboards == {DashTimeFilter, DashDuplicates, DashSkips, DashFar}

\* the table in which the first entry of a name is the one bound
RECURSIVE BindingTable_FirstWins(_)
BindingTable_FirstWins(list) ==
  IF list = <<>> THEN <<>>
  ELSE (list[1].name :> (IF list[1].current.has THEN list[1].current.v ELSE StrVal(<<>>)))
       @@ BindingTable_FirstWins(Tail(list))

\* {var['name']: var.get('current', {}).get('value', '') for var in list}
RECURSIVE BindingTable(_)
BindingTable(list) ==
  IF list = <<>> THEN <<>>
  ELSE (list[Len(list)].name :>
          (IF list[Len(list)].current.has THEN list[Len(list)].current.v ELSE StrVal(<<>>)))
       @@ BindingTable(SubSeq(list, 1, Len(list) - 1))

\* the templating list request r reads
TemplatingOf_Shared(r) == dashboard_data[1].templating

TemplatingOf(r) == dashboard_data[r].templating

\* panel.get('title', 'Untitled Panel')
PanelTitle(panel) == IF panel.title.has THEN panel.title.v ELSE UntitledPanel

\* isinstance(datasource_info, dict) and datasource_info.get('uid') == uid
PanelUsesDatabricks(panel) ==
  /\ panel.datasource.has
  /\ panel.datasource.v.kind = "dict"
  /\ panel.datasource.v.uid.has
  /\ panel.datasource.v.uid.v = DatabricksUid

\* f"{panel_title} - Query {i+1}" for the position i of enumerate
ResultKey_ByPosition(panel_title, i) == panel_title \o QueryInfix \o NatToStr(i)

ResultKey(panel_title, i) == panel_title \o QueryInfix \o NatToStr(i + 1)

\* the target has a rawSql, empty or not
HasRawSql_Present(target) == target.rawSql.has

\* if raw_sql: the target has a non-empty rawSql
HasRawSql(target) == target.rawSql.has /\ target.rawSql.v # <<>>

\* the locals of view_dashboard before the request is served
Arrived ==
  [pc |-> "start", template_variables |-> <<>>, time_from |-> <<>>, time_to |-> <<>>,
   databricks_results |-> <<>>, p |-> 1, i |-> 0, executed |-> <<>>, reads |-> <<>>]

InitDash ==
  /\ dashboard_data \in [Requests -> Dashboards]
  /\ request = [r \in Requests |-> Arrived]
  /\ clock = EndToEndInstant
  /\ TargetIdle
  /\ ParseIdle
  /\ time_from = <<>>
  /\ time_to = <<>>
  /\ utcnow = Unset
  /\ pc = "requests"
  /\ ServiceIdle

NotRequests == <<target_vars, parse_vars, service_vars>>

\* the operating system advances the clock by a second
Tick ==
  /\ clock.s - EndToEndInstant.s < MaxTicks
  /\ \E r \in Requests : request[r].pc \notin {"done", "error"}
  /\ clock' = [clock EXCEPT !.s = @ + 1]
  /\ UNCHANGED <<NotRequests, dashboard_data, request>>

\* src/app.py 495-501
BeginRequest(r) ==
  /\ request[r].pc = "start"
  /\ request' = [request EXCEPT ![r] =
       [@ EXCEPT !.pc = "panels",
                 !.template_variables = BindingTable(TemplatingOf(r)),
                 !.time_from = IF dashboard_data[r].time.from.has
                               THEN dashboard_data[r].time.from.v ELSE SixHoursAgo,
                 !.time_to = IF dashboard_data[r].time.to.has
                             THEN dashboard_data[r].time.to.v ELSE Now_]]
  /\ UNCHANGED <<NotRequests, dashboard_data, clock>>

\* src/app.py 505-516: the next panel, entered when it uses the datasource
EnterPanel(r) ==
  /\ request[r].pc = "panels"
  /\ request[r].p <= Len(dashboard_data[r].panels)
  /\ request' = [request EXCEPT ![r] =
       IF PanelUsesDatabricks(dashboard_data[r].panels[request[r].p])
       THEN [@ EXCEPT !.pc = "targets", !.i = 0]
       ELSE [@ EXCEPT !.p = @ + 1]]
  /\ UNCHANGED <<NotRequests, dashboard_data, clock>>

\* src/app.py 505: the loop over the panels ends
LeavePanels(r) ==
  /\ request[r].pc = "panels"
  /\ request[r].p > Len(dashboard_data[r].panels)
  /\ request' = [request EXCEPT ![r].pc = "done"]
  /\ UNCHANGED <<NotRequests, dashboard_data, clock>>

\* the locals after the target at position i of the panel was resolved as q
\* at the instant now, executed and stored: src/app.py 519-604
AfterTarget(locals, key, q, now) ==
  IF q.raised THEN [locals EXCEPT !.pc = "error"]
  ELSE [locals EXCEPT !.databricks_results = (key :> q.sql) @@ @,
                      !.executed = Append(@, q.sql),
                      !.reads = Append(@, [p |-> locals.p, i |-> locals.i, now |-> now]),
                      !.i = @ + 1]

\* src/app.py 517-606: one target of the panel
RunTarget(r) ==
  /\ request[r].pc = "targets"
  /\ request[r].i < Len(dashboard_data[r].panels[request[r].p].targets)
  /\ request' = [request EXCEPT ![r] =
       IF HasRawSql(dashboard_data[r].panels[request[r].p].targets[request[r].i + 1])
       THEN AfterTarget(@, ResultKey(PanelTitle(dashboard_data[r].panels[request[r].p]), request[r].i),
                        ResolveQuery(dashboard_data[r].panels[request[r].p].targets[request[r].i + 1].rawSql.v,
                                     request[r].template_variables, request[r].time_from,
                                     request[r].time_to, clock),
                        clock)
       ELSE [@ EXCEPT !.i = @ + 1]]
  /\ UNCHANGED <<NotRequests, dashboard_data, clock>>

\* src/app.py 516: the loop over the targets ends
LeaveTargets(r) ==
  /\ request[r].pc = "targets"
  /\ request[r].i >= Len(dashboard_data[r].panels[request[r].p].targets)
  /\ request' = [request EXCEPT ![r] = [@ EXCEPT !.pc = "panels", !.p = @ + 1]]
  /\ UNCHANGED <<NotRequests, dashboard_data, clock>>

NextDash ==
  \/ Tick
  \/ \E r \in Requests :
       \/ BeginRequest(r)
       \/ EnterPanel(r)
       \/ LeavePanels(r)
       \/ RunTarget(r)
       \/ LeaveTargets(r)

SpecDash == InitDash /\ [][NextDash]_vars

(***************************************************************************)
(* Properties of the requests.                                             *)
(***************************************************************************)
Finished(r) == request[r].pc = "done"

PanelsOf(r) == dashboard_data[r].panels

\* the raw query of the k-th executed target of request r
RawOfRead(r, k) ==
  PanelsOf(r)[request[r].reads[k].p].targets[request[r].reads[k].i + 1].rawSql.v

UsesTimeFilter(text) == TimeFilterSearch(text).found

\* C16: the time range is derived once per request: the queries of one
\* request that use the time filter are resolved against one reference
\* instant and get the same boundary timestamps
C16_TimeDerivedOnce ==
  \A r \in Requests :
    \A j, k \in 1..Len(request[r].reads) :
      (UsesTimeFilter(RawOfRead(r, j)) /\ UsesTimeFilter(RawOfRead(r, k))) =>
        /\ request[r].reads[j].now = request[r].reads[k].now
        /\ RawOfRead(r, j) = RawOfRead(r, k)
             => request[r].executed[j] = request[r].executed[k]

\* the panel at position p of request r names the designated datasource
Designated(r, p) ==
  /\ PanelsOf(r)[p].datasource.has
  /\ PanelsOf(r)[p].datasource.v.kind = "dict"
  /\ PanelsOf(r)[p].datasource.v.uid.has
  /\ PanelsOf(r)[p].datasource.v.uid.v = <<"d","d","j","m","o","o","c","1","s","o","5","4","w","c">>

\* <<p, i>>: the target at zero-based position i of panel p is in scope and
\* has a non-empty rawSql
Processable(r) ==
  {pi \in (1..Len(PanelsOf(r))) \X (0..3) :
     /\ Designated(r, pi[1])
     /\ pi[2] < Len(PanelsOf(r)[pi[1]].targets)
     /\ PanelsOf(r)[pi[1]].targets[pi[2] + 1].rawSql.has
     /\ PanelsOf(r)[pi[1]].targets[pi[2] + 1].rawSql.v # <<>>}

TitleOf(r, p) ==
  IF PanelsOf(r)[p].title.has THEN PanelsOf(r)[p].title.v ELSE <<"U","n","t","i","t","l","e","d"," ","P","a","n","e","l">>

\* "<title> - Query <i+1>"
KeyOf(r, pi) == TitleOf(r, pi[1]) \o <<" ","-"," ","Q","u","e","r","y"," ">> \o NatToStr(pi[2] + 1)

\* pi is processed before qj
Before(pi, qj) == pi[1] < qj[1] \/ (pi[1] = qj[1] /\ pi[2] < qj[2])

\* the query executed for the target pi, from the log of the executions
QueryOf(r, pi) ==
  request[r].executed[CHOOSE k \in 1..Len(request[r].reads) :
                        request[r].reads[k].p = pi[1] /\ request[r].reads[k].i = pi[2]]

\* C17: the result of the target at zero-based position i of a panel titled
\* T is stored under "T - Query <i+1>", i counting the skipped targets too;
\* of two targets with the same key the one processed later is the one kept
C17_ResultKeys ==
  \A r \in Requests :
    Finished(r) =>
      /\ DOMAIN request[r].databricks_results = {KeyOf(r, pi) : pi \in Processable(r)}
      /\ \A pi \in Processable(r) :
           (~\E qj \in Processable(r) : Before(pi, qj) /\ KeyOf(r, qj) = KeyOf(r, pi))
             => request[r].databricks_results[KeyOf(r, pi)] = QueryOf(r, pi)

KeyAQuery1 == <<"A"," ","-"," ","Q","u","e","r","y"," ","1">>

KeyAQuery3 == <<"A"," ","-"," ","Q","u","e","r","y"," ","3">>

C17_Witness ==
  /\ dashboard_data[1] = DashTimeFilter
  /\ dashboard_data[2] = DashDuplicates
  /\ Finished(1)
  /\ Finished(2)
  /\ DOMAIN request[1].databricks_results = {KeyAQuery1, KeyAQuery3}
  /\ DOMAIN request[2].databricks_results = {KeyAQuery1}
  /\ Len(request[2].executed) = 2
  /\ request[2].databricks_results[KeyAQuery1] = request[2].executed[2]

\* C18: panels without the designated datasource, panels without targets and
\* targets without a non-empty rawSql add no entry and run no query; every
\* other target is processed
C18_AbsenceSkipped ==
  \A r \in Requests :
    Finished(r) =>
      /\ {<<request[r].reads[k].p, request[r].reads[k].i>> : k \in 1..Len(request[r].reads)}
           = Processable(r)
      /\ Len(request[r].executed) = Cardinality(Processable(r))
      /\ DOMAIN request[r].databricks_results = {KeyOf(r, pi) : pi \in Processable(r)}

C18_Witness ==
  /\ dashboard_data[1] = DashSkips
  /\ Finished(1)
  /\ Processable(1) = {<<6, 1>>}
  /\ request[1].executed = <<<<"x"," ","I","N"," ","(","5",")">>>>
  /\ DOMAIN request[1].databricks_results = {<<"U","n","t","i","t","l","e","d"," ","P","a","n","e","l"," ","-"," ","Q","u","e","r","y"," ","2">>}

\* C19: the binding table maps each listed name to the current value of the
\* last entry of that name, as it is
C19_BindingTable ==
  \A r \in Requests :
    request[r].pc # "start" =>
      /\ DOMAIN request[r].template_variables
           = {dashboard_data[r].templating[k].name : k \in 1..Len(dashboard_data[r].templating)}
      /\ \A k \in 1..Len(dashboard_data[r].templating) :
           (/\ dashboard_data[r].templating[k].current.has
            /\ \A j \in (k + 1)..Len(dashboard_data[r].templating) :
                 dashboard_data[r].templating[j].name # dashboard_data[r].templating[k].name)
             => request[r].template_variables[dashboard_data[r].templating[k].name]
                  = dashboard_data[r].templating[k].current.v

C19_Witness ==
  /\ dashboard_data[1] = DashDuplicates
  /\ Finished(1)
  /\ request[1].template_variables[NameV] = ListVal(<<StrVal(<<"a">>), StrVal(<<"b">>)>>)
  /\ request[1].executed[1] = <<"x"," ","I","N"," ","(","'","a","'",","," ","'","b","'",")">>

\* the mapping a request with dashboard d produces alone when its targets are
\* resolved at the instants of reads: the entries of the first n executions
RECURSIVE AloneResults(_, _, _)
AloneResults(d, reads, n) ==
  IF n = 0 THEN <<>>
  ELSE ((IF d.panels[reads[n].p].title.has THEN d.panels[reads[n].p].title.v
         ELSE UntitledPanel) \o QueryInfix \o NatToStr(reads[n].i + 1)
        :> ResolveQuery(d.panels[reads[n].p].targets[reads[n].i + 1].rawSql.v,
                        BindingTable(d.templating),
                        IF d.time.from.has THEN d.time.from.v ELSE SixHoursAgo,
                        IF d.time.to.has THEN d.time.to.v ELSE Now_,
                        reads[n].now).sql)
       @@ AloneResults(d, reads, n - 1)

\* C20: whatever the interleaving of the requests, each one produces the
\* mapping it produces alone from its own dashboard: its bindings, its time
\* range and its queries come from no other request
C20_RequestsIndependent ==
  \A r \in Requests :
    /\ request[r].pc # "start" =>
         request[r].template_variables = BindingTable(dashboard_data[r].templating)
    /\ Finished(r) =>
         /\ request[r].databricks_results
              = AloneResults(dashboard_data[r], request[r].reads, Len(request[r].reads))
         /\ {<<request[r].reads[k].p, request[r].reads[k].i>> : k \in 1..Len(request[r].reads)}
              = Processable(r)

C20_Witness ==
  /\ dashboard_data[1] = DashDuplicates
  /\ dashboard_data[2] = DashSkips
  /\ Finished(1)
  /\ Finished(2)
  /\ request[1].executed[1] = <<"x"," ","I","N"," ","(","'","a","'",","," ","'","b","'",")">>
  /\ request[2].executed[1] = <<"x"," ","I","N"," ","(","5",")">>

(***************************************************************************)
(* One query target again, on queries and bindings of the corners: values  *)
(* that hold the text of a key, the sentinel in every position, qualified  *)
(* and negated IN-conditions.                                              *)
(***************************************************************************)
QueryIntervalU == <<"'","$","I","n","t","e","r","v","a","l","'"," ","$","{","u","}">>

QueryVU == <<"$","{","v","}"," ","$","{","u","}">>

QueryQualified == <<"t",".","c","o","l"," ","I","N"," ","(","$","{","v","}",")">>

QueryNotIn == <<"c","o","l"," ","N","O","T"," ","I","N"," ","(","$","{","v","}",")">>

QueryEq == <<"x"," ","="," ","$","{","v","}">>

QueryIn == <<"x"," ","I","N"," ","(","$","{","v","}",")">>

QueryTimeInterval == <<"$","_","_","t","i","m","e","F","i","l","t","e","r","(","t","s",")"," ","A","N","D"," ","g"," ","="," ","'","$","I","n","t","e","r","v","a","l","'">>

CornerQueries ==
  {QueryIntervalU, QueryVU, QueryQualified, QueryNotIn, QueryEq, QueryIn, QueryTimeInterval}

PlaceholderU == StrVal(<<"$","{","u","}">>)

IntervalText == StrVal(<<"$","I","n","t","e","r","v","a","l">>)

Daily == StrVal(<<"D","a","i","l","y">>)

MixedList == ListVal(<<StrA, AllSentinel, IntVal(7), StrB>>)

SentinelTwice == ListVal(<<AllSentinel, AllSentinel>>)

CornerTables ==
  { (NameV :> PlaceholderU) @@ (NameU :> StrB) @@ (IntervalName :> PlaceholderU),
    (NameV :> AllList),
    (NameV :> AllSentinel) @@ (IntervalName :> AllSentinel),
    (NameV :> MixedList),
    (NameV :> ListVal(<<>>)),
    (NameV :> SentinelTwice),
    (NameV :> IntervalText) @@ (IntervalName :> Daily),
    (NameV :> ListVal(<<StrA>>)),
    (IntervalName :> IntervalText) }

\* src/app.py 495-519 for the corner inputs
InitCorner ==
  /\ raw_sql \in CornerQueries
  /\ template_variables \in CornerTables
  /\ time_from = OneDayAgo
  /\ time_to = Now_
  /\ utcnow = EndToEndInstant
  /\ interpolated_sql = raw_sql
  /\ origin = [i \in 1..Len(raw_sql) |-> i]
  /\ replacements_to_make = <<>>
  /\ processed_conditions = {}
  /\ warnings = <<>>
  /\ events = <<>>
  /\ executed = <<>>
  /\ pc = "timefilter"
  /\ ParseIdle
  /\ RequestIdle
  /\ ServiceIdle

SpecCorner == InitCorner /\ [][Next]_vars

(***************************************************************************)
(* Properties of the corner inputs.                                        *)
(***************************************************************************)
\* the text that stands at Done for the raw occurrence of a key at a is val
StandsFor(a, key, val) == Replaced(a, a + Len(key) - 1) /\ Written(a) = val

\* C23: a bound value is written as it is and no later replacement of the
\* same substitution rewrites it: what stands for '$Interval' is the quoted
\* value of Interval, what stands for the placeholder of a scalar is its
\* literal, also when the value holds the text of another key
C23_BoundValuesVerbatim ==
  Done =>
    /\ \A k \in 1..Len(events) : ~events[k].rewrote
    /\ \A a \in RawAt(IntervalToken) :
         IsBound(IntervalName) =>
           StandsFor(a, IntervalToken, Quote \o PyStr(template_variables[IntervalName]) \o Quote)
    /\ \A name \in {NameV, NameU} :
         (IsBound(name) /\ IsScalar(template_variables[name])) =>
           \A a \in RawAt(Placeholder(name)) :
             StandsFor(a, Placeholder(name), SqlLiteral(template_variables[name]))

\* the word a condition key begins with
LeadingWord(c) == SubSeq(c, 1, RunEnd(c, 1, WordChars))

\* C24: an IN-condition replaced by 1=1 is a complete condition: it is not
\* preceded by the qualifier of its column and its leading word is not NOT
C24_CompleteCondition ==
  Done =>
    \A c \in processed_conditions :
      /\ LeadingWord(c) \notin {<<"N","O","T">>, <<"n","o","t">>}
      /\ \A a \in RawAt(c) : a = 1 \/ raw_sql[a - 1] \notin (WordChars \cup {"."})
      /\ ~Contains(interpolated_sql, <<"t",".","1","=","1">>)
      /\ ~Contains(interpolated_sql, <<"c","o","l"," ","1","=","1">>)

\* C25: no replacement written for a bound variable, and none written for
\* the interval token, holds the sentinel $__all
C25_SentinelNeverWritten ==
  Done =>
    /\ \A k \in 1..Len(events) : ~Contains(events[k].val, AllSentinel.s)
    /\ \A k \in 1..Len(executed) : ~Contains(executed[k], AllSentinel.s)

\* the elements of a list that are not the sentinel, strings in single
\* quotes and ints in digits, in their order, separated by a comma and a blank
RECURSIVE ElementsText(_)
ElementsText(items) ==
  IF items = <<>> THEN <<>>
  ELSE IF items[1] = AllSentinel THEN ElementsText(Tail(items))
       ELSE (IF items[1].t = "str" THEN <<"'">> \o items[1].s \o <<"'">>
             ELSE IntToStr(items[1].n))
            \o (IF \E k \in 2..Len(items) : items[k] # AllSentinel
                THEN <<",", " ">> ELSE <<>>)
            \o ElementsText(Tail(items))

IsOtherList(v) == v.t = "list" /\ v # AllList

\* C26: the placeholder of a variable bound to a list other than ['$__all']
\* is replaced by the non-sentinel elements in their order, strings quoted
\* and ints in digits; by nothing when no such element is left
C26_ListElements ==
  Done =>
    \A name \in {NameV, NameU} :
      (IsBound(name) /\ IsOtherList(template_variables[name])) =>
        /\ RepHas(replacements_to_make, Placeholder(name)) =>
             /\ RepGet(replacements_to_make, Placeholder(name)).has
             /\ RepGet(replacements_to_make, Placeholder(name)).val
                  = ElementsText(template_variables[name].items)
        /\ \A a \in RawAt(Placeholder(name)) :
             StandsFor(a, Placeholder(name), ElementsText(template_variables[name].items))

C26_Witness ==
  /\ Done
  /\ raw_sql = QueryIn
  /\ IsBound(NameV)
  /\ template_variables[NameV] = MixedList
  /\ executed = <<<<"x"," ","I","N"," ","(","'","a","'",","," ","7",","," ","'","b","'",")">>>>

\* C27 as stated: the token '$Interval' never remains in a resolved query
C27_TokenNeverRemains ==
  Done => ~Contains(interpolated_sql, IntervalToken)

\* what the interval pass writes for the token
QuotedInterval ==
  Quote \o (IF IsBound(IntervalName) THEN PyStr(template_variables[IntervalName])
            ELSE <<"M","o","n","t","h","l","y">>) \o Quote

\* C27 amended: the interval pass runs after the time-filter pass and before
\* the placeholder scan; when it has run every token '$Interval' of the raw
\* query is consumed and the quoted value of Interval, 'Monthly' when it is
\* not bound, stands for it
C27_IntervalPass ==
  /\ pc = "plan" =>
       /\ \A a \in RawAt(IntervalToken) : StandsFor(a, IntervalToken, QuotedInterval)
       /\ replacements_to_make = <<>>
       /\ TimeFilterSearch(raw_sql).found =>
            Len(events) >= 1 /\ StartsAt(events[1].key, 1, TimeFilterOpen)
  /\ pc \in {"apply", "execute", "done"} =>
       /\ \A a \in RawAt(IntervalToken) : Replaced(a, a + Len(IntervalToken) - 1)
       /\ \A k \in 1..Len(events) :
            events[k].key = IntervalToken =>
              /\ events[k].val = QuotedInterval
              /\ \A j \in 1..Len(events) :
                   /\ RepHas(replacements_to_make, events[j].key) => k < j
                   /\ StartsAt(events[j].key, 1, TimeFilterOpen) => j < k

C27_Witness ==
  /\ Done
  /\ raw_sql = QueryTimeInterval
  /\ IsBound(IntervalName)
  /\ template_variables[IntervalName] = Daily
  /\ Len(events) = 2
  /\ events[2].key = IntervalToken
  /\ Contains(interpolated_sql, <<"g"," ","="," ","'","D","a","i","l","y","'">>)

(***************************************************************************)
(* The insights functions: get_insights_from_gemini with its testing mode  *)
(* and get_insights_from_mcp with its fall-back.  Texts are sequences of   *)
(* characters; an optional argument is Present(v) or Missing.              *)
(***************************************************************************)
\* the most calls of set_gemini_testing_mode followed
MaxSets == 2

\* bool(v) of an optional text or dict: None, "" and {} are false
Truthy(opt) == opt.has /\ opt.v # <<>>

\* src/app.py 158-159: if mock_response: GEMINI_MOCK_RESPONSE = mock_response
MockAfterSet_Always(mock_response, current) ==
  IF mock_response.has THEN mock_response.v ELSE <<>>

MockAfterSet(mock_response, current) ==
  IF Truthy(mock_response) THEN mock_response.v ELSE current

\* src/app.py 140: the mock response the module starts with
DefaultMockResponse == <<"#","#"," ","M","o","c","k"," ","I","n","s","i","g","h","t","s"," ","f","r","o","m"," ","G","e","m","i","n","i"," ","A","P","I","\n","T","h","i","s"," ","i","s"," ","a"," ","m","o","c","k"," ","r","e","s","p","o","n","s","e"," ","u","s","e","d"," ","d","u","r","i","n","g"," ","t","e","s","t","i","n","g"," ","t","o"," ","a","v","o","i","d"," ","r","e","a","l"," ","A","P","I"," ","c","a","l","l","s",".">>

ErrorNoKey == <<"E","r","r","o","r",":"," ","G","e","m","i","n","i"," ","A","P","I"," ","K","e","y"," ","n","o","t"," ","c","o","n","f","i","g","u","r","e","d",".">>

ErrorStructure == <<"E","r","r","o","r",":"," ","R","e","c","e","i","v","e","d"," ","u","n","e","x","p","e","c","t","e","d"," ","r","e","s","p","o","n","s","e"," ","s","t","r","u","c","t","u","r","e"," ","f","r","o","m"," ","G","e","m","i","n","i"," ","A","P","I",".">>

ErrorTimeout == <<"E","r","r","o","r",":"," ","G","e","m","i","n","i"," ","A","P","I"," ","r","e","q","u","e","s","t"," ","t","i","m","e","d"," ","o","u","t","."," ","P","l","e","a","s","e"," ","t","r","y"," ","a","g","a","i","n"," ","l","a","t","e","r"," ","o","r"," ","w","i","t","h"," ","a"," ","s","i","m","p","l","e","r"," ","d","a","s","h","b","o","a","r","d",".">>

ErrorCalling == <<"E","r","r","o","r"," ","c","a","l","l","i","n","g"," ","G","e","m","i","n","i"," ","A","P","I",":"," ">>

ErrorNoClient == <<"E","r","r","o","r",":"," ","M","C","P"," ","c","l","i","e","n","t"," ","n","o","t"," ","i","n","i","t","i","a","l","i","z","e","d",".">>

\* what the exchange with the Gemini endpoint can come to
GeminiText(text) == [kind |-> "text", text |-> text]

GeminiStatus(code, message) == [kind |-> "status", code |-> code, message |-> message]

GeminiFailure(kind) == [kind |-> kind]

\* src/app.py 366-410: the text returned after requests.post
GeminiResponseText(outcome) ==
  IF outcome.kind = "text" THEN outcome.text
  ELSE IF outcome.kind = "no candidates" THEN ErrorStructure
  ELSE IF outcome.kind = "status"
       THEN ErrorCalling \o NatToStr(outcome.code) \o <<" ", ":", " ">> \o outcome.message
  ELSE ErrorTimeout

\* src/app.py 259-361: the request posted: the dashboard, and the query
\* results when there are any
GeminiRequest(dashboard, query_results) ==
  [to |-> "gemini", dashboard |-> dashboard,
   results |-> IF Truthy(query_results) THEN query_results ELSE Missing]

\* src/app.py 246-410, get_insights_from_gemini: [result, http]
GeminiCall(testing, mock, key, dashboard, query_results, outcome) ==
  IF testing THEN [result |-> mock, http |-> <<>>]
  ELSE IF ~Truthy(key) THEN [result |-> ErrorNoKey, http |-> <<>>]
  ELSE [result |-> GeminiResponseText(outcome),
        http |-> <<GeminiRequest(dashboard, query_results)>>]

\* what one action of the MCP server can come to
ActionSuccess(data) == [kind |-> "success", data |-> data]

ActionFailures == {[kind |-> "status not success"], [kind |-> "communication error"]}

McpRequest(action_name) == [to |-> "mcp", action |-> action_name]

\* every outcome taken for a success
ExecuteAction_Lenient(outcome) ==
  [raised |-> FALSE, data |-> IF outcome.kind = "success" THEN outcome.data ELSE <<>>]

\* src/mcp_client.py 44-85, execute_action: the data, or an exception
ExecuteAction(outcome) ==
  IF outcome.kind = "success" THEN [raised |-> FALSE, data |-> outcome.data]
  ELSE [raised |-> TRUE, data |-> <<>>]

Recommendations == <<"recommendations">>

\* data.get(key, default) of a dict held as a function
DictGet(data, key, default) == IF key \in DOMAIN data THEN data[key] ELSE default

\* two actions one after the other and the recommendations of the second:
\* src/mcp_client.py 187-279
ChainedActions(first, second, a1, a2) ==
  IF a1.raised THEN [raised |-> TRUE, value |-> <<>>, http |-> <<McpRequest(first)>>]
  ELSE [raised |-> a2.raised,
        value |-> IF a2.raised THEN <<>> ELSE DictGet(a2.data, Recommendations, <<>>),
        http |-> <<McpRequest(first), McpRequest(second)>>]

\* src/app.py 434-447: the try block of get_insights_from_mcp
McpTry(query_results, o1, o2) ==
  IF Truthy(query_results)
  THEN ChainedActions("analyze_cost_patterns", "generate_recommendations",
                      ExecuteAction(o1), ExecuteAction(o2))
  ELSE ChainedActions("get_dashboard", "generate_recommendations",
                      ExecuteAction(o1), ExecuteAction(o2))

\* src/app.py 449-453: the except block, given what the try block and the
\* call of get_insights_from_gemini came to
McpOrFallback(tried, gemini, dashboard, query_results) ==
  IF tried.raised
  THEN [result |-> gemini.result, http |-> tried.http \o gemini.http,
        inner |-> <<[fn |-> "get_insights_from_gemini", dashboard |-> dashboard,
                     query_results |-> query_results, result |-> gemini.result]>>]
  ELSE [result |-> tried.value, http |-> tried.http, inner |-> <<>>]

\* src/app.py 422-453, get_insights_from_mcp: [result, http, inner]
McpCall(client, testing, mock, key, dashboard, query_results, o1, o2, outcome) ==
  IF ~client THEN [result |-> ErrorNoClient, http |-> <<>>, inner |-> <<>>]
  ELSE McpOrFallback(McpTry(query_results, o1, o2),
                     GeminiCall(testing, mock, key, dashboard, query_results, outcome),
                     dashboard, query_results)

InsightsA == <<"A">>

InsightsB == <<"B">>

GeminiOutcomes ==
  {GeminiText(InsightsA), GeminiStatus(500, <<"x">>),
   GeminiFailure("no candidates"), GeminiFailure("timeout")}

ActionOutcomes == {ActionSuccess(Recommendations :> InsightsB)} \cup ActionFailures

MockA == <<"m","1">>

MockB == <<"m","2">>

MockArguments == {Missing, Present(MockA), Present(MockB)}

ApiKey == Present(<<"k","e","y">>)

\* the dashboard data and the query results the functions are called with
DashboardArguments == {DashSkips}

ResultArguments == {Missing, Present(KeyAQuery1 :> QueryPlain)}

\* the module as loaded: src/app.py 122-144, config.py
InitGemini ==
  /\ GEMINI_TESTING_MODE = FALSE
  /\ GEMINI_MOCK_RESPONSE = DefaultMockResponse
  /\ GEMINI_API_KEY \in {ApiKey, Missing}
  /\ mcp_client \in BOOLEAN
  /\ set_calls = <<>>
  /\ last_call = Unset
  /\ route_uid = <<>>
  /\ tempdir = <<>>
  /\ session = <<>>
  /\ view = <<>>
  /\ download = <<>>
  /\ TargetIdle
  /\ time_from = <<>>
  /\ time_to = <<>>
  /\ utcnow = Unset
  /\ pc = "insights"
  /\ ParseIdle
  /\ RequestIdle

NotGemini == <<target_vars, parse_vars, request_vars, view_vars>>

\* src/app.py 146-161
SetGeminiTestingMode(enable, mock_response) ==
  /\ Len(set_calls) < MaxSets
  /\ GEMINI_TESTING_MODE' = enable
  /\ GEMINI_MOCK_RESPONSE' = MockAfterSet(mock_response, GEMINI_MOCK_RESPONSE)
  /\ set_calls' = Append(set_calls, [enable |-> enable, mock_response |-> mock_response])
  /\ UNCHANGED <<NotGemini, GEMINI_API_KEY, mcp_client, last_call>>

\* the record of a call: its arguments, the number of set calls before it,
\* the outcomes of the MCP actions it was given, and what it did
CallRecord(fn, dashboard, query_results, before, given, done) ==
  [fn |-> fn, dashboard |-> dashboard, query_results |-> query_results,
   before |-> before, given |-> given,
   result |-> done.result, http |-> done.http, inner |-> done.inner]

\* src/app.py 246-410
GetInsightsFromGemini(dashboard, query_results, outcome) ==
  /\ last_call' =
       CallRecord("get_insights_from_gemini", dashboard, query_results, Len(set_calls), <<>>,
                  GeminiCall(GEMINI_TESTING_MODE, GEMINI_MOCK_RESPONSE, GEMINI_API_KEY,
                             dashboard, query_results, outcome) @@ [inner |-> <<>>])
  /\ UNCHANGED <<NotGemini, GEMINI_TESTING_MODE, GEMINI_MOCK_RESPONSE, GEMINI_API_KEY,
                 mcp_client, set_calls>>

\* src/app.py 422-453
GetInsightsFromMcp(dashboard, query_results, o1, o2, outcome) ==
  /\ last_call' =
       CallRecord("get_insights_from_mcp", dashboard, query_results, Len(set_calls),
                  IF o1.kind = "success" THEN <<o1, o2>> ELSE <<o1>>,
                  McpCall(mcp_client, GEMINI_TESTING_MODE, GEMINI_MOCK_RESPONSE, GEMINI_API_KEY,
                          dashboard, query_results, o1, o2, outcome))
  /\ UNCHANGED <<NotGemini, GEMINI_TESTING_MODE, GEMINI_MOCK_RESPONSE, GEMINI_API_KEY,
                 mcp_client, set_calls>>

NextGemini ==
  \/ \E enable \in BOOLEAN, mock_response \in MockArguments :
       SetGeminiTestingMode(enable, mock_response)
  \/ \E dashboard \in DashboardArguments, query_results \in ResultArguments,
        outcome \in GeminiOutcomes :
       GetInsightsFromGemini(dashboard, query_results, outcome)
  \/ \E dashboard \in DashboardArguments, query_results \in ResultArguments,
        o1 \in ActionOutcomes, o2 \in ActionOutcomes, outcome \in GeminiOutcomes :
       GetInsightsFromMcp(dashboard, query_results, o1, o2, outcome)

SpecGemini == InitGemini /\ [][NextGemini]_vars

(***************************************************************************)
(* Properties of the insights functions.                                   *)
(***************************************************************************)
Called(fn) == last_call # Unset /\ last_call.fn = fn

\* the calls of set_gemini_testing_mode made before the latest call
SetsBefore == SubSeq(set_calls, 1, last_call.before)

\* the k-th set call enabled the testing mode with a non-empty mock response
\* and no later one disabled the mode or gave another response
StillArmed(k) ==
  /\ SetsBefore[k].enable
  /\ Truthy(SetsBefore[k].mock_response)
  /\ \A j \in (k + 1)..Len(SetsBefore) :
       SetsBefore[j].enable /\ ~Truthy(SetsBefore[j].mock_response)

\* the calls of get_insights_from_gemini in the latest call: itself, or the
\* one made by the fall-back of get_insights_from_mcp
GeminiCalls ==
  IF last_call = Unset THEN {}
  ELSE IF last_call.fn = "get_insights_from_gemini" THEN {last_call.result}
  ELSE {last_call.inner[k].result : k \in 1..Len(last_call.inner)}

GeminiRequests == {k \in 1..Len(last_call.http) : last_call.http[k].to = "gemini"}

\* C21: while the testing mode stays enabled after a call that set the
\* non-empty mock response m, get_insights_from_gemini returns m and posts
\* nothing, with or without an API key; once the mode is disabled a call
\* takes the real path
C21_TestingMode ==
  /\ \A k \in 1..(IF last_call = Unset THEN 0 ELSE Len(SetsBefore)) :
       StillArmed(k) =>
         /\ \A result \in GeminiCalls : result = SetsBefore[k].mock_response.v
         /\ GeminiRequests = {}
  /\ (/\ Called("get_insights_from_gemini")
      /\ SetsBefore # <<>>
      /\ ~SetsBefore[Len(SetsBefore)].enable) =>
       IF Truthy(GEMINI_API_KEY)
       THEN /\ Cardinality(GeminiRequests) = 1
            /\ \E o \in GeminiOutcomes : last_call.result = GeminiResponseText(o)
       ELSE last_call.result = ErrorNoKey /\ GeminiRequests = {}

C21_Witness ==
  /\ Called("get_insights_from_gemini")
  /\ GEMINI_API_KEY = ApiKey
  /\ set_calls = <<[enable |-> TRUE, mock_response |-> Present(MockA)],
                   [enable |-> TRUE, mock_response |-> Missing]>>
  /\ last_call.before = 2
  /\ last_call.result = MockA
  /\ last_call.http = <<>>

\* C29: with a client, when an MCP action fails get_insights_from_mcp calls
\* get_insights_from_gemini with its own arguments and returns what that
\* call returns; without a client it returns the error text and calls
\* nothing
C29_McpFallsBack ==
  Called("get_insights_from_mcp") =>
    /\ ~mcp_client =>
         /\ last_call.result = ErrorNoClient
         /\ last_call.inner = <<>>
         /\ last_call.http = <<>>
    /\ (mcp_client /\ \E k \in 1..Len(last_call.given) : last_call.given[k] \in ActionFailures) =>
         /\ Len(last_call.inner) = 1
         /\ last_call.inner[1].fn = "get_insights_from_gemini"
         /\ last_call.inner[1].dashboard = last_call.dashboard
         /\ last_call.inner[1].query_results = last_call.query_results
         /\ last_call.result = last_call.inner[1].result
         /\ last_call.before = Len(set_calls) =>
              \E o \in GeminiOutcomes :
                last_call.result = GeminiCall(GEMINI_TESTING_MODE, GEMINI_MOCK_RESPONSE,
                                              GEMINI_API_KEY, last_call.dashboard,
                                              last_call.query_results, o).result

C29_Witness ==
  /\ Called("get_insights_from_mcp")
  /\ mcp_client
  /\ GEMINI_API_KEY = ApiKey
  /\ ~GEMINI_TESTING_MODE
  /\ Len(last_call.given) = 2
  /\ last_call.given[2] = [kind |-> "status not success"]
  /\ last_call.result = InsightsA
  /\ Len(last_call.http) = 3

(***************************************************************************)
(* The views and the downloads: view_dashboard from the fetch of the       *)
(* dashboard to the response, and download_pdf_report.  Every request is   *)
(* made in a session of its own, named like the request; the sessions      *)
(* share the Grafana server and the directory of temporary files.          *)
(***************************************************************************)
UidPlain == <<"p">>

UidQuiet == <<"q">>

UidSkips == <<"s">>

UidFar == <<"f">>

UidBare == <<"b">>

UidGone == <<"g">>

UidUnknown == <<"u">>

Uids == {UidPlain, UidQuiet, UidSkips, UidFar, UidBare, UidGone, UidUnknown}

\* panels of which no target is executed
DashQuiet ==
  Dashboard(<<>>,
            TimeOf(Missing, Missing),
            <<Panel(DatasourceOf(OtherUid), Present(TitleA), <<Target(Present(QueryPlain))>>),
              Panel(DatasourceOf(DatabricksUid), Present(TitleB), <<Target(Missing)>>)>>)

\* the body of a 200 answer, with or without the key 'dashboard'
Details(dashboard) == [kind |-> "json", dashboard |-> dashboard]

\* src/grafana_api.py 15-22, get_dashboard, for the dashboards the server
\* holds: the body of a 200 answer, None for another status that
\* raise_for_status accepts, an exception for an unknown uid
GetDashboard(uid) ==
  IF uid = UidPlain THEN Details(Present(DashDuplicates))
  ELSE IF uid = UidQuiet THEN Details(Present(DashQuiet))
  ELSE IF uid = UidSkips THEN Details(Present(DashSkips))
  ELSE IF uid = UidFar THEN Details(Present(DashFar))
  ELSE IF uid = UidBare THEN Details(Missing)
  ELSE IF uid = UidGone THEN [kind |-> "none"]
  ELSE [kind |-> "raised"]

\* the answer of a view function that returns a rendered template: the
\* template, the status and what the template is given
Rendered(page, insights, error) ==
  [page |-> page, status |-> 200, insights |-> insights, error |-> error]

\* the exception leaves the view function
OnException_Propagate(error) ==
  [page |-> "none", status |-> 500, insights |-> <<>>, error |-> error]

\* src/app.py 684-686 and 1376-1378: the except clause of the view
OnException(error) == Rendered("error.html", <<>>, error)

\* src/app.py 486-487 and 1266-1267
CouldNotFetch == Rendered("error.html", <<>>, "Could not fetch dashboard details")

\* src/app.py 656-659, markdown.markdown, for a text of one line without
\* markup: one paragraph
Markdown(text) == <<"<","p",">">> \o text \o <<"<","/","p",">">>

TempDir == <<"/","t","m","p","/">>

\* src/app.py 664-665: os.path.join(tempfile.gettempdir(), f"insights_{uid}.html")
InsightsPath(uid) == TempDir \o <<"i","n","s","i","g","h","t","s","_">> \o uid \o <<".","h","t","m","l">>

\* f'dashboard_{uid}_insights_path'
SessionKey(uid) == <<"d","a","s","h","b","o","a","r","d","_">> \o uid \o <<"_","i","n","s","i","g","h","t","s","_","p","a","t","h">>

NoInsights == <<"<","p",">","N","o"," ","i","n","s","i","g","h","t","s"," ","a","v","a","i","l","a","b","l","e"," ","f","o","r"," ","t","h","i","s"," ","d","a","s","h","b","o","a","r","d",".","<","/","p",">">>

\* the results passed on to every insights call
InsightsResults_Always(databricks_results) == Present(databricks_results)

\* src/app.py 609-649: query_results is None when databricks_results is
\* empty, and databricks_results otherwise
InsightsResults(databricks_results) ==
  IF databricks_results = <<>> THEN Missing ELSE Present(databricks_results)

\* src/app.py 611-649: get_insights_from_mcp when there is a client,
\* get_insights_from_gemini otherwise, and what the future holds
InsightsCall(client, testing, mock, key, dashboard, query_results, o1, o2, outcome) ==
  IF client
  THEN [fn |-> "get_insights_from_mcp", dashboard |-> dashboard, query_results |-> query_results]
       @@ McpCall(client, testing, mock, key, dashboard, query_results, o1, o2, outcome)
  ELSE [fn |-> "get_insights_from_gemini", dashboard |-> dashboard,
        query_results |-> query_results, inner |-> <<>>]
       @@ GeminiCall(testing, mock, key, dashboard, query_results, outcome)

\* the locals of view_dashboard when the request arrives
Routed == [Arrived EXCEPT !.pc = "fetch"]

InitView ==
  /\ route_uid \in [Requests -> Uids]
  /\ dashboard_data = [r \in Requests |-> Unset]
  /\ request = [r \in Requests |-> Routed]
  /\ clock = EndToEndInstant
  /\ tempdir = <<>>
  /\ session = [r \in Requests |-> <<>>]
  /\ view = [r \in Requests |-> Unset]
  /\ download = [r \in Requests |-> Unset]
  /\ GEMINI_TESTING_MODE = FALSE
  /\ GEMINI_MOCK_RESPONSE = DefaultMockResponse
  /\ GEMINI_API_KEY = ApiKey
  /\ mcp_client \in BOOLEAN
  /\ set_calls = <<>>
  /\ last_call = Unset
  /\ TargetIdle
  /\ ParseIdle
  /\ time_from = <<>>
  /\ time_to = <<>>
  /\ utcnow = Unset
  /\ pc = "views"

NotViews == <<target_vars, parse_vars, gemini_vars, route_uid, clock>>

\* src/app.py 482-487: the fetch of the dashboard
FetchDashboard(r) ==
  /\ request[r].pc = "fetch"
  /\ IF GetDashboard(route_uid[r]).kind # "json"
     THEN /\ request' = [request EXCEPT ![r].pc = "error"]
          /\ UNCHANGED <<dashboard_data, view>>
     ELSE IF ~GetDashboard(route_uid[r]).dashboard.has
     THEN /\ request' = [request EXCEPT ![r].pc = "answered"]
          /\ view' = [view EXCEPT ![r] = CouldNotFetch @@ [asked |-> <<>>]]
          /\ UNCHANGED dashboard_data
     ELSE /\ request' = [request EXCEPT ![r].pc = "start"]
          /\ dashboard_data' = [dashboard_data EXCEPT ![r] = GetDashboard(route_uid[r]).dashboard.v]
          /\ UNCHANGED view
  /\ UNCHANGED <<NotViews, tempdir, session, download>>

\* src/app.py 684-686: an exception raised by a step of the request
ErrorPage(r) ==
  /\ request[r].pc = "error"
  /\ request' = [request EXCEPT ![r].pc = "answered"]
  /\ view' = [view EXCEPT ![r] =
       OnException("An error occurred") @@ [asked |-> IF view[r] = Unset THEN <<>> ELSE view[r].asked]]
  /\ UNCHANGED <<NotViews, dashboard_data, tempdir, session, download>>

\* the response with the insights, after they were stored when there are
\* any: src/app.py 652-683
AfterInsights(call, uid, stored) ==
  IF call.result = <<>>
  THEN [pc |-> "answered", view |-> Rendered("dashboard.html", <<>>, "") @@ [asked |-> <<call>>],
        files |-> <<>>, keys |-> <<>>]
  ELSE IF ~stored
  THEN [pc |-> "error", view |-> [asked |-> <<call>>], files |-> <<>>, keys |-> <<>>]
  ELSE [pc |-> "answered",
        view |-> Rendered("dashboard.html", Markdown(call.result), "") @@ [asked |-> <<call>>],
        files |-> InsightsPath(uid) :> Markdown(call.result),
        keys |-> SessionKey(uid) :> InsightsPath(uid)]

\* src/app.py 608-683: the insights are asked for, waited for, stored and
\* answered; stored tells whether the file could be written
GetInsights(r, o1, o2, outcome, stored) ==
  /\ request[r].pc = "done"
  /\ LET after == AfterInsights(
                    InsightsCall(mcp_client, GEMINI_TESTING_MODE, GEMINI_MOCK_RESPONSE,
                                 GEMINI_API_KEY, dashboard_data[r],
                                 InsightsResults(request[r].databricks_results),
                                 o1, o2, outcome),
                    route_uid[r], stored)
     IN /\ request' = [request EXCEPT ![r].pc = after.pc]
        /\ view' = [view EXCEPT ![r] = after.view]
        /\ tempdir' = after.files @@ tempdir
        /\ session' = [session EXCEPT ![r] = after.keys @@ @]
  /\ UNCHANGED <<NotViews, dashboard_data, download>>

\* session.get(key) of a session held as a function
SessionGet(cookie, key) == IF key \in DOMAIN cookie THEN Present(cookie[key]) ELSE Missing

\* src/app.py 1270-1275: the insights the report is made of
ReportInsights(insights_path, files) ==
  IF Truthy(insights_path) /\ insights_path.v \in DOMAIN files
  THEN files[insights_path.v] ELSE NoInsights

\* src/app.py 1258-1378, download_pdf_report, in the session of request r
DownloadPdfReport(r) ==
  /\ download[r] = Unset
  /\ download' = [download EXCEPT ![r] =
       IF GetDashboard(route_uid[r]).kind # "json"
       THEN OnException("An error occurred generating the PDF") @@ [insights_path |-> Missing]
       ELSE IF ~GetDashboard(route_uid[r]).dashboard.has
       THEN CouldNotFetch @@ [insights_path |-> Missing]
       ELSE [page |-> "pdf", status |-> 200, error |-> "",
             insights |-> ReportInsights(SessionGet(session[r], SessionKey(route_uid[r])), tempdir),
             insights_path |-> SessionGet(session[r], SessionKey(route_uid[r]))]]
  /\ UNCHANGED <<NotViews, dashboard_data, request, tempdir, session, view>>

\* the steps of the loop over the panels leave the sessions alone
LoopStep(r) ==
  \/ BeginRequest(r)
  \/ EnterPanel(r)
  \/ LeavePanels(r)
  \/ RunTarget(r)
  \/ LeaveTargets(r)

NextView ==
  \E r \in Requests :
    \/ FetchDashboard(r)
    \/ LoopStep(r)
    \/ \E o1 \in ActionOutcomes, o2 \in ActionOutcomes, outcome \in GeminiOutcomes,
          stored \in BOOLEAN :
         GetInsights(r, o1, o2, outcome, stored)
    \/ ErrorPage(r)
    \/ DownloadPdfReport(r)

SpecView == InitView /\ [][NextView]_vars

(***************************************************************************)
(* Properties of the views and the downloads.                              *)
(***************************************************************************)
Answered(r) == request[r].pc = "answered"

\* the fetch of the dashboard of request r raises, or brings no dashboard
FetchFailed(r) ==
  \/ GetDashboard(route_uid[r]).kind # "json"
  \/ ~GetDashboard(route_uid[r]).dashboard.has

\* the resolution of a query of request r raised: the loop was left before
\* the last target that has a query
QueryRaised(r) ==
  /\ dashboard_data[r] # Unset
  /\ request[r].pc \in {"error", "answered"}
  /\ Len(request[r].executed) < Cardinality(Processable(r))

\* the insights of request r were not empty and could not be stored
StoreRaised(r) ==
  /\ view[r] # Unset
  /\ view[r].asked # <<>>
  /\ view[r].asked[1].result # <<>>
  /\ SessionKey(route_uid[r]) \notin DOMAIN session[r]

\* C22: view_dashboard answers every request with status 200: with the
\* error page when the fetch of the dashboard fails or a later step raises,
\* and with the dashboard page otherwise
C22_ErrorPage ==
  \A r \in Requests :
    Answered(r) =>
      /\ view[r].status = 200
      /\ view[r].page =
           IF FetchFailed(r) \/ QueryRaised(r) \/ StoreRaised(r)
           THEN "error.html" ELSE "dashboard.html"

C22_Witness ==
  /\ route_uid[1] = UidUnknown
  /\ Answered(1)
  /\ view[1].page = "error.html"
  /\ route_uid[2] = UidFar
  /\ Answered(2)
  /\ Len(request[2].executed) = 1
  /\ view[2].page = "error.html"
  /\ view[2].status = 200

\* the target the k-th execution of request r was made for
ReadAt(r, k) == <<request[r].reads[k].p, request[r].reads[k].i>>

\* the insights call of request r, made or not yet
Asked(r) == IF view[r] = Unset THEN <<>> ELSE view[r].asked

\* C28: the executions of a request follow the dashboard order over the
\* targets that have a query in the panels in scope, none left out and none
\* repeated, also when two of them share a result key; the insights call is
\* made once they are all done, with the results when there are any and
\* with the dashboard alone when there are none
C28_QueriesThenInsights ==
  \A r \in Requests :
    dashboard_data[r] # Unset =>
      /\ \A k \in 1..Len(request[r].reads) :
           /\ ReadAt(r, k) \in Processable(r)
           /\ request[r].executed[k] = QueryOf(r, ReadAt(r, k))
           /\ \A j \in 1..(k - 1) : Before(ReadAt(r, j), ReadAt(r, k))
           /\ \A pi \in Processable(r) :
                Before(pi, ReadAt(r, k)) => \E j \in 1..(k - 1) : ReadAt(r, j) = pi
      /\ Asked(r) # <<>> =>
           /\ Len(Asked(r)) = 1
           /\ Len(request[r].reads) = Cardinality(Processable(r))
           /\ Asked(r)[1].dashboard = dashboard_data[r]
           /\ Asked(r)[1].query_results =
                IF Processable(r) = {} THEN Missing
                ELSE Present(request[r].databricks_results)
           /\ Processable(r) = {} =>
                \A k \in 1..Len(Asked(r)[1].http) :
                  /\ Asked(r)[1].http[k].to = "gemini" => ~Asked(r)[1].http[k].results.has
                  /\ Asked(r)[1].http[k].to = "mcp" =>
                       Asked(r)[1].http[k].action # "analyze_cost_patterns"

C28_Witness ==
  /\ route_uid[1] = UidPlain
  /\ Answered(1)
  /\ Len(request[1].executed) = 2
  /\ Cardinality(DOMAIN request[1].databricks_results) = 1
  /\ Asked(1)[1].query_results = Present(request[1].databricks_results)
  /\ route_uid[2] = UidQuiet
  /\ Answered(2)
  /\ request[2].executed = <<>>
  /\ Asked(2)[1].query_results = Missing
  /\ view[2].page = "dashboard.html"

\* the download of session r made a report from the path its session held
ReportFromSession(r) ==
  /\ download[r] # Unset
  /\ download[r].page = "pdf"
  /\ download[r].insights_path.has

\* C30: the report downloaded in a session after its view of the dashboard
\* holds the insights that view answered with, whatever the views of other
\* sessions did in between
C30_OwnInsights ==
  \A r \in Requests :
    ReportFromSession(r) => download[r].insights = view[r].insights

=============================================================================
